---------------------------- MODULE Spec2Model ----------------------------
(***************************************************************************)
(* Verification model of the solver-callback core of ATS: the Richards     *)
(* boundary-condition composer and its setup, Richards::IsAdmissible, and  *)
(* the energy kernel's error norm and residual (EnergyBase).               *)
(*                                                                         *)
(* Units.  Floating-point fields are modelled by integers in fixed units   *)
(* chosen so that every quotient the code forms is exact:                  *)
(*   - temperatures in hundredths of a kelvin (273.15 K = 27315);          *)
(*   - trial pressures of IsAdmissible in units of 1e7 Pa (-1e9 = -100,    *)
(*     1e8 = 10, the sentinels +-1e15 = +-100000000);                      *)
(*   - energies and cell residuals of enorm in units of 1e6.               *)
(***************************************************************************)
EXTENDS Integers, Sequences, FiniteSets, TLC

(***************************************************************************)
(* Bounds of the model.                                                    *)
(***************************************************************************)
NumFacesOwned == 3
NumFacesGhost == 2
NumSurfaceCells == 1
MaxTime == 1
NumScenarios == 2

(***************************************************************************)
(* Mesh collaborator (read-only queries).  Faces 0..NumFacesOwned-1 are    *)
(* owned, the next NumFacesGhost faces are ghosts.  Even faces have one    *)
(* adjacent cell, odd faces two.  Surface cell c sits on subsurface face   *)
(* 2c (a one-cell face).                                                   *)
(***************************************************************************)
NumFacesUsed == NumFacesOwned + NumFacesGhost
Faces == 0 .. (NumFacesUsed - 1)
OwnedFaces == 0 .. (NumFacesOwned - 1)
GhostFaces == Faces \ OwnedFaces
FaceNumCells(f) == IF f % 2 = 0 THEN 1 ELSE 2
FaceArea(f) == 2
SurfaceCells == 0 .. (NumSurfaceCells - 1)
EntityGetParent(c) == 2 * c
CoupledFaces == { EntityGetParent(c) : c \in SurfaceCells }
ExteriorFaces == { f \in OwnedFaces : FaceNumCells(f) = 1 }
\* exterior_face_map().LID(face_map(false).GID(f)): position of f among the
\* owned exterior faces, -1 when f is not one of them
ExteriorLID(f) ==
  IF f \in ExteriorFaces THEN Cardinality({ e \in ExteriorFaces : e < f }) ELSE -1

Times == 0 .. MaxTime
Scenarios == 0 .. (NumScenarios - 1)

(***************************************************************************)
(* State fields of S_next_ read by the composer.  The solution and the     *)
(* secondary fields are owned by collaborators; the model indexes them by  *)
(* a scenario number so that every face sees every level.                  *)
(***************************************************************************)
PressureLevels == << -5, 0, 5 >>
RelPermLevels == << 0, 2, -2, 4 >>
TemperatureLevels == << 27316, 27315, 27000 >>
PressureAt(s, f) == PressureLevels[((s + f) % 3) + 1]
RelPermAt(s, f) == RelPermLevels[((s + f) % 4) + 1]
TemperatureAt(s, f) == TemperatureLevels[((s + 2 * f) % 3) + 1]
SurfacePressureAt(s, c) == 50 + s + c
SurfaceSubsurfaceFluxAt(s, c) == 16 * (1 + s + c)
FreezingPoint == 27315

(***************************************************************************)
(* Boundary functions (collaborator Functions::BoundaryFunction).          *)
(* Compute(t) rebuilds the face -> value map for time t; the composer      *)
(* iterates whatever map the last Compute left and assumes nothing about   *)
(* its key set.  All three sources are time dependent.                     *)
(***************************************************************************)
PressureValue(f, t) == 100 + 10 * t + f
FluxValue(f, t) == 8 * (1 + t + f)
SeepageValue(f, t) == 5 * t
BCRegions == { {}, Faces }
SeepageRegions == { {}, ExteriorFaces }
EmptyMap == [f \in {} |-> 0]
BCPressureCompute(region, t) == [f \in region |-> PressureValue(f, t)]
BCFluxCompute(region, t) == [f \in region |-> FluxValue(f, t)]
BCSeepageCompute(region, t) == [f \in region |-> SeepageValue(f, t)]

(***************************************************************************)
(* Configuration (parameter list) values.                                  *)
(***************************************************************************)
UpdateFluxModes == { "iteration", "timestep", "vis", "never" }
PlistUpdateFluxModes == { "iteration", "sometimes" }
Layouts == { "face", "boundary_face" }

VARIABLES
  pc,                             \* "constructed", "ready", "threw", "aborted"
  plist,                          \* the parameter list handed to the kernel
  coupled_to_surface_via_flux_,
  coupled_to_surface_via_head_,
  infiltrate_only_if_unfrozen_,
  update_flux_,
  layout,                         \* components of the primary variable
  bc_pressure_, bc_flux_, bc_seepage_,
  bc_markers_, bc_values_,
  time,                           \* S_next_->time()
  sol,                            \* scenario of the fields of S_next_
  ubc_in                          \* what the last composition read

richVars == << pc, plist, coupled_to_surface_via_flux_, coupled_to_surface_via_head_,
               infiltrate_only_if_unfrozen_, update_flux_, layout,
               bc_pressure_, bc_flux_, bc_seepage_, bc_markers_, bc_values_,
               time, sol, ubc_in >>

(***************************************************************************)
(* Richards::UpdateBoundaryConditions_, one operator per loop.  bc is the  *)
(* pair of arrays [m |-> bc_markers_, v |-> bc_values_].                   *)
(***************************************************************************)
ResetBCsKeep(bc) == bc
ResetBCs(bc) ==
  [m |-> [f \in DOMAIN bc.m |-> "NONE"], v |-> [f \in DOMAIN bc.v |-> 0]]

DirichletStep(bc, bcp) ==
  [m |-> [f \in DOMAIN bc.m |-> IF f \in DOMAIN bcp THEN "DIRICHLET" ELSE bc.m[f]],
   v |-> [f \in DOMAIN bc.v |-> IF f \in DOMAIN bcp THEN bcp[f] ELSE bc.v[f]]]

\* bc_values_[f] = bc->second; if (!kr && rel_perm[0][f] > 0.) bc_values_[f] /= rel_perm
ScaleByRelPermAlways(val, kr, relperm) ==
  IF relperm # 0 THEN val \div relperm ELSE val
ScaleByRelPerm(val, kr, relperm) ==
  IF (~kr) /\ relperm > 0 THEN val \div relperm ELSE val

NeumannValue(val, kr, s, f, infiltrate) ==
  IF ~infiltrate
    THEN ScaleByRelPerm(val, kr, RelPermAt(s, f))
    ELSE IF TemperatureAt(s, f) > FreezingPoint
           THEN ScaleByRelPerm(val, kr, RelPermAt(s, f))
           ELSE 0

NeumannStep(bc, bcf, kr, s, infiltrate) ==
  [m |-> [f \in DOMAIN bc.m |-> IF f \in DOMAIN bcf THEN "NEUMANN" ELSE bc.m[f]],
   v |-> [f \in DOMAIN bc.v |->
            IF f \in DOMAIN bcf THEN NeumannValue(bcf[f], kr, s, f, infiltrate)
                                ELSE bc.v[f]]]

\* Richards::BoundaryValue
BoundaryValue(lay, s, f) ==
  IF lay = "face"
    THEN [g \in OwnedFaces |-> PressureAt(s, g)][f]
    ELSE [b \in 0 .. (Cardinality(ExteriorFaces) - 1) |->
            PressureAt(s, CHOOSE e \in ExteriorFaces : ExteriorLID(e) = b)][ExteriorLID(f)]

SeepagePairLeq(bc_pressure, threshold) ==
  IF bc_pressure <= threshold THEN << "NEUMANN", 0 >> ELSE << "DIRICHLET", threshold >>
SeepagePair(bc_pressure, threshold) ==
  IF bc_pressure < threshold THEN << "NEUMANN", 0 >> ELSE << "DIRICHLET", threshold >>

SeepageStep(bc, bcs, lay, s) ==
  [m |-> [f \in DOMAIN bc.m |->
            IF f \in DOMAIN bcs THEN SeepagePair(BoundaryValue(lay, s, f), bcs[f])[1]
                                ELSE bc.m[f]],
   v |-> [f \in DOMAIN bc.v |->
            IF f \in DOMAIN bcs THEN SeepagePair(BoundaryValue(lay, s, f), bcs[f])[2]
                                ELSE bc.v[f]]]

SurfaceCellOf(f) == CHOOSE c \in SurfaceCells : EntityGetParent(c) = f

CoupledHeadStep(bc, via_head, s) ==
  IF ~via_head THEN bc ELSE
  [m |-> [f \in DOMAIN bc.m |-> IF f \in CoupledFaces THEN "DIRICHLET" ELSE bc.m[f]],
   v |-> [f \in DOMAIN bc.v |->
            IF f \in CoupledFaces THEN SurfacePressureAt(s, SurfaceCellOf(f))
                                  ELSE bc.v[f]]]

CoupledFluxValue(kr, s, f) ==
  ScaleByRelPerm(SurfaceSubsurfaceFluxAt(s, SurfaceCellOf(f)) \div FaceArea(f),
                 kr, RelPermAt(s, f))

CoupledFluxStep(bc, via_flux, kr, s) ==
  IF ~via_flux THEN bc ELSE
  [m |-> [f \in DOMAIN bc.m |-> IF f \in CoupledFaces THEN "NEUMANN" ELSE bc.m[f]],
   v |-> [f \in DOMAIN bc.v |->
            IF f \in CoupledFaces THEN CoupledFluxValue(kr, s, f) ELSE bc.v[f]]]

\* for (f = 0; f < nfaces_owned; f++) if (marker == NONE && ncells == 1) -> (NEUMANN, 0)
DefaultStepAllUsed(bc) ==
  [m |-> [f \in DOMAIN bc.m |->
            IF bc.m[f] = "NONE" /\ FaceNumCells(f) = 1 THEN "NEUMANN" ELSE bc.m[f]],
   v |-> [f \in DOMAIN bc.v |->
            IF bc.m[f] = "NONE" /\ FaceNumCells(f) = 1 THEN 0 ELSE bc.v[f]]]
DefaultStep(bc) ==
  [m |-> [f \in DOMAIN bc.m |->
            IF f \in OwnedFaces /\ bc.m[f] = "NONE" /\ FaceNumCells(f) = 1
              THEN "NEUMANN" ELSE bc.m[f]],
   v |-> [f \in DOMAIN bc.v |->
            IF f \in OwnedFaces /\ bc.m[f] = "NONE" /\ FaceNumCells(f) = 1
              THEN 0 ELSE bc.v[f]]]

\* the loops in program order; src names the three boundary functions and flags
ComposeSwapped(bc, src, kr, s) ==
  DefaultStep(
    CoupledFluxStep(
      CoupledHeadStep(
        NeumannStep(
          SeepageStep(
            DirichletStep(ResetBCs(bc), src.pressure),
            src.seepage, src.layout, s),
          src.flux, kr, s, src.infiltrate),
        src.via_head, s),
      src.via_flux, kr, s))
Compose(bc, src, kr, s) ==
  DefaultStep(
    CoupledFluxStep(
      CoupledHeadStep(
        SeepageStep(
          NeumannStep(
            DirichletStep(ResetBCs(bc), src.pressure),
            src.flux, kr, s, src.infiltrate),
          src.seepage, src.layout, s),
        src.via_head, s),
      src.via_flux, kr, s))

\* the boundary sources and flags as the composer finds them
Sources(bcp, bcf) ==
  [pressure |-> bcp, flux |-> bcf, seepage |-> bc_seepage_, layout |-> layout,
   infiltrate |-> infiltrate_only_if_unfrozen_,
   via_head |-> coupled_to_surface_via_head_,
   via_flux |-> coupled_to_surface_via_flux_]

(***************************************************************************)
(* Richards: construction and setup.                                       *)
(***************************************************************************)
Plists ==
  [via_flux : BOOLEAN, via_head : BOOLEAN, infiltrate : BOOLEAN,
   tpfa_cells_only : BOOLEAN, update_flux_mode : PlistUpdateFluxModes]

NoInputs == [kind |-> "none"]

RichardsInit ==
  /\ pc = "constructed"
  /\ plist \in Plists
  /\ coupled_to_surface_via_flux_ = FALSE
  /\ coupled_to_surface_via_head_ = FALSE
  /\ infiltrate_only_if_unfrozen_ = FALSE
  /\ update_flux_ = "unset"
  /\ layout = "unset"
  /\ bc_pressure_ = EmptyMap
  /\ bc_flux_ = EmptyMap
  /\ bc_seepage_ = EmptyMap
  /\ bc_markers_ = << >>
  /\ bc_values_ = << >>
  /\ time = 0
  /\ sol = 0
  /\ ubc_in = NoInputs

\* ASSERT(!(coupled_to_surface_via_flux_ && coupled_to_surface_via_head_))
CouplingCheckOmitted(via_flux, via_head) == "ready"
CouplingCheck(via_flux, via_head) ==
  IF via_flux /\ via_head THEN "aborted" ELSE "ready"

\* "coupled to surface via head" overrides the flux update mode
UpdateFluxModeKept(mode, via_head) == mode
UpdateFluxModeAfterCoupling(mode, via_head) ==
  IF via_head THEN "iteration" ELSE mode

SetupRichardsFlow_ ==
  /\ pc = "constructed"
  /\ \E region \in SeepageRegions :
       bc_seepage_' = BCSeepageCompute(region, 0)
  /\ layout' = IF plist.tpfa_cells_only THEN "boundary_face" ELSE "face"
  /\ infiltrate_only_if_unfrozen_' = plist.infiltrate
  /\ bc_markers_' = [f \in Faces |-> "NONE"]
  /\ bc_values_' = [f \in Faces |-> 0]
  /\ IF plist.update_flux_mode \notin UpdateFluxModes
       THEN /\ pc' = "threw"
            /\ UNCHANGED << update_flux_, coupled_to_surface_via_flux_,
                            coupled_to_surface_via_head_ >>
       ELSE /\ coupled_to_surface_via_flux_' = plist.via_flux
            /\ coupled_to_surface_via_head_' = plist.via_head
            /\ update_flux_' =
                 UpdateFluxModeAfterCoupling(plist.update_flux_mode, plist.via_head)
            /\ pc' = CouplingCheck(plist.via_flux, plist.via_head)
  /\ UNCHANGED << plist, bc_pressure_, bc_flux_, time, sol, ubc_in >>

(***************************************************************************)
(* Richards: the callers of the composer, and the environment.             *)
(***************************************************************************)
Arrays == [m |-> bc_markers_, v |-> bc_values_]

NamedFaces(src) ==
  (DOMAIN src.pressure) \cup (DOMAIN src.flux) \cup (DOMAIN src.seepage)
    \cup (IF src.via_head \/ src.via_flux THEN CoupledFaces ELSE {})

\* which coupling loops of the composition wrote
CoupledWrites(src) ==
  (IF src.via_head THEN {"head"} ELSE {}) \cup (IF src.via_flux THEN {"flux"} ELSE {})

\* what a composition read (sources, kr, fields of S_next_, time), and how it
\* relates to the composition before it
InputsFrom(before, arrays, src, kr, s) ==
  [kind |-> "read", src |-> src, kr |-> kr, sol |-> s, time |-> time,
   coupled_writes |-> CoupledWrites(src),
   repeat |-> /\ before.kind = "read"
              /\ before.src = src /\ before.kr = kr /\ before.sol = s,
   stale_seen |-> \/ (before.kind = "read" /\ before.stale_seen)
                  \/ \E f \in Faces \ NamedFaces(src) :
                        arrays.m[f] = "DIRICHLET" \/ arrays.v[f] # 0]
Inputs(src, kr, s) == InputsFrom(ubc_in, Arrays, src, kr, s)

\* bc_pressure_->Compute(t); bc_flux_->Compute(t); UpdateBoundaryConditions_(kr)
ComputeAndUpdate(rp, rf, kr, s) ==
  LET bcp == BCPressureCompute(rp, time)
      bcf == BCFluxCompute(rf, time)
      out == Compose(Arrays, Sources(bcp, bcf), kr, s)
  IN  /\ bc_pressure_' = bcp
      /\ bc_flux_' = bcf
      /\ bc_markers_' = out.m
      /\ bc_values_' = out.v
      /\ ubc_in' = Inputs(Sources(bcp, bcf), kr, s)

\* a collaborator writes a new iterate into S_next_
NextScenario(s) == (s + 1) % NumScenarios

\* the default of kr is declared in richards.hh, outside the sources modelled;
\* the flux predictor then rewrites the iterate
ModifyPredictorFluxBCs_ ==
  /\ pc = "ready"
  /\ \E rp \in BCRegions, rf \in BCRegions, kr \in BOOLEAN :
       ComputeAndUpdate(rp, rf, kr, sol)
  /\ sol' = NextScenario(sol)
  /\ UNCHANGED << pc, plist, coupled_to_surface_via_flux_, coupled_to_surface_via_head_,
                  infiltrate_only_if_unfrozen_, update_flux_, layout, bc_seepage_, time >>

\* faces are first averaged from cells, the composition runs without rel perm,
\* then the consistent faces are solved for
CalculateConsistentFaces ==
  /\ pc = "ready"
  /\ layout = "face"
  /\ \E rp \in BCRegions, rf \in BCRegions :
       ComputeAndUpdate(rp, rf, FALSE, NextScenario(sol))
  /\ sol' = NextScenario(NextScenario(sol))
  /\ UNCHANGED << pc, plist, coupled_to_surface_via_flux_, coupled_to_surface_via_head_,
                  infiltrate_only_if_unfrozen_, update_flux_, layout, bc_seepage_, time >>

\* the nonlinear solver writes a new iterate into S_next_
ChangedSolution ==
  /\ pc = "ready"
  /\ sol' = NextScenario(sol)
  /\ UNCHANGED << pc, plist, coupled_to_surface_via_flux_, coupled_to_surface_via_head_,
                  infiltrate_only_if_unfrozen_, update_flux_, layout,
                  bc_pressure_, bc_flux_, bc_seepage_, bc_markers_, bc_values_,
                  time, ubc_in >>

\* the time integrator advances S_next_->time()
AdvanceTime ==
  /\ pc = "ready"
  /\ time < MaxTime
  /\ time' = time + 1
  /\ UNCHANGED << pc, plist, coupled_to_surface_via_flux_, coupled_to_surface_via_head_,
                  infiltrate_only_if_unfrozen_, update_flux_, layout,
                  bc_pressure_, bc_flux_, bc_seepage_, bc_markers_, bc_values_,
                  sol, ubc_in >>

RichardsNext ==
  \/ SetupRichardsFlow_
  \/ ModifyPredictorFluxBCs_
  \/ CalculateConsistentFaces
  \/ AdvanceTime
  \/ ChangedSolution

(***************************************************************************)
(* Richards::ModifyPredictor: the modifications it runs, in the order of   *)
(* the code, on the iterate and the boundary arrays.                       *)
(***************************************************************************)
MaxCycle == 1

VARIABLES
  modify_predictor_bc_flux_,
  modify_predictor_first_bc_flux_,
  modify_predictor_wc_,
  modify_predictor_with_consistent_faces_,
  cycle,        \* S_next_->cycle()
  pred_out      \* how the last ModifyPredictor ended, and what it ran

predVars == << modify_predictor_bc_flux_, modify_predictor_first_bc_flux_,
               modify_predictor_wc_, modify_predictor_with_consistent_faces_,
               cycle, pred_out >>

\* modify_predictor_bc_flux_ ||
\*   (modify_predictor_first_bc_flux_ && S_next_->cycle() == 0)
FluxBCsEnabledAnyCycle(bc_flux, first_bc_flux, c) == bc_flux \/ first_bc_flux
FluxBCsEnabled(bc_flux, first_bc_flux, c) == bc_flux \/ (first_bc_flux /\ c = 0)

PredInit ==
  /\ modify_predictor_bc_flux_ \in BOOLEAN
  /\ modify_predictor_first_bc_flux_ \in BOOLEAN
  /\ modify_predictor_wc_ \in BOOLEAN
  /\ modify_predictor_with_consistent_faces_ \in BOOLEAN
  /\ cycle = 0
  /\ pred_out = [kind |-> "none"]

PredRest ==
  /\ PredInit
  /\ ~modify_predictor_bc_flux_
  /\ ~modify_predictor_first_bc_flux_
  /\ ~modify_predictor_wc_
  /\ ~modify_predictor_with_consistent_faces_

\* the three guarded calls in the order of the code; ModifyPredictorWC_ is
\* ASSERT(0), so nothing after it runs and nothing is returned
ModifyPredictor ==
  /\ pc = "ready"
  /\ \E rp \in BCRegions, rf \in BCRegions, kr \in BOOLEAN :
       LET flux == FluxBCsEnabled(modify_predictor_bc_flux_,
                                  modify_predictor_first_bc_flux_, cycle)
           wc == modify_predictor_wc_
           faces == modify_predictor_with_consistent_faces_ /\ ~wc
           src == Sources(BCPressureCompute(rp, time), BCFluxCompute(rf, time))
           \* ModifyPredictorFluxBCs_
           arrays1 == IF flux THEN Compose(Arrays, src, kr, sol) ELSE Arrays
           in1 == IF flux THEN Inputs(src, kr, sol) ELSE ubc_in
           sol1 == IF flux THEN NextScenario(sol) ELSE sol
           \* ModifyPredictorConsistentFaces_
           arrays2 == IF faces THEN Compose(arrays1, src, FALSE, NextScenario(sol1))
                               ELSE arrays1
           in2 == IF faces THEN InputsFrom(in1, arrays1, src, FALSE, NextScenario(sol1))
                           ELSE in1
           sol2 == IF faces THEN NextScenario(NextScenario(sol1)) ELSE sol1
           ran == (IF flux THEN << "ModifyPredictorFluxBCs_" >> ELSE << >>)
                    \o (IF wc THEN << "ModifyPredictorWC_" >> ELSE << >>)
                    \o (IF faces THEN << "ModifyPredictorConsistentFaces_" >> ELSE << >>)
       IN  /\ bc_pressure_' = IF flux \/ faces THEN src.pressure ELSE bc_pressure_
           /\ bc_flux_' = IF flux \/ faces THEN src.flux ELSE bc_flux_
           /\ bc_markers_' = arrays2.m
           /\ bc_values_' = arrays2.v
           /\ ubc_in' = in2
           /\ sol' = sol2
           /\ pc' = IF wc THEN "aborted" ELSE pc
           /\ pred_out' = IF wc THEN [kind |-> "aborted", ran |-> ran]
                                ELSE [kind |-> "returned", changed |-> flux \/ faces,
                                      ran |-> ran]
  /\ UNCHANGED << plist, coupled_to_surface_via_flux_, coupled_to_surface_via_head_,
                  infiltrate_only_if_unfrozen_, update_flux_, layout, bc_seepage_, time,
                  modify_predictor_bc_flux_, modify_predictor_first_bc_flux_,
                  modify_predictor_wc_, modify_predictor_with_consistent_faces_, cycle >>

\* the time integrator completes a step
AdvanceCycle ==
  /\ pc = "ready"
  /\ cycle < MaxCycle
  /\ cycle' = cycle + 1
  /\ time' = IF time < MaxTime THEN time + 1 ELSE time
  /\ UNCHANGED << pc, plist, coupled_to_surface_via_flux_, coupled_to_surface_via_head_,
                  infiltrate_only_if_unfrozen_, update_flux_, layout,
                  bc_pressure_, bc_flux_, bc_seepage_, bc_markers_, bc_values_,
                  sol, ubc_in,
                  modify_predictor_bc_flux_, modify_predictor_first_bc_flux_,
                  modify_predictor_wc_, modify_predictor_with_consistent_faces_,
                  pred_out >>

PredNext ==
  \/ ModifyPredictor
  \/ AdvanceCycle

(***************************************************************************)
(* Richards::IsAdmissible.  The trial iterate is distributed over          *)
(* partitions; each partition scans its owned cells and, when the iterate  *)
(* has a "face" component, its owned faces, and the extrema are reduced    *)
(* over all partitions (a blocking collective).                            *)
(***************************************************************************)
NumPartitions == 2
NumLocal == 2

Partitions == 0 .. (NumPartitions - 1)
LocalIds == 0 .. (NumLocal - 1)

\* pressures in units of 1e7 Pa
MinInit == 100000000
MaxInit == -100000000
MinAdmissible == -100
MaxAdmissible == 10
TrialValues == { -200000000, -101, -100, 0, 10, 11, 200000000 }
VerbosityLevels == << "low", "medium", "high" >>
VerbosityRank(v) == CHOOSE i \in 1 .. Len(VerbosityLevels) : VerbosityLevels[i] = v
\* vo_->os_OK(level)
OsOK(v, level) == VerbosityRank(v) >= VerbosityRank(level)

VARIABLES
  up,           \* the trial iterate: its components and their owned values
  verbosity,    \* level of the verbose object
  adm           \* outcome of the last IsAdmissible call

admVars == << up, verbosity, adm >>

\* Epetra map of a vector with NumLocal owned entries per partition
GID(p, lid) == IF lid < 0 THEN -1 ELSE p * NumLocal + lid

\* the scans of lines 1266-1292: strict comparisons, the first extremum wins
RECURSIVE ScanMin(_, _, _)
ScanMin(vec, i, acc) ==
  IF i = NumLocal THEN acc
  ELSE ScanMin(vec, i + 1, IF vec[i] < acc.value THEN [value |-> vec[i], id |-> i] ELSE acc)
RECURSIVE ScanMax(_, _, _)
ScanMax(vec, i, acc) ==
  IF i = NumLocal THEN acc
  ELSE ScanMax(vec, i + 1, IF vec[i] > acc.value THEN [value |-> vec[i], id |-> i] ELSE acc)
LocalMin(vec) == ScanMin(vec, 0, [value |-> MinInit, id |-> -1])
LocalMax(vec) == ScanMax(vec, 0, [value |-> MaxInit, id |-> -1])

SetMin(S) == CHOOSE x \in S : \A y \in S : x <= y
SetMax(S) == CHOOSE x \in S : \A y \in S : x >= y

HasFace(u) == "face" \in u.comps

\* minT, maxT of one partition before the reduction
LocalMinT(u, p) ==
  IF HasFace(u) THEN SetMin({ LocalMin(u.cell[p]).value, LocalMin(u.second[p]).value })
                ELSE LocalMin(u.cell[p]).value
LocalMaxT(u, p) ==
  IF HasFace(u) THEN SetMax({ LocalMax(u.cell[p]).value, LocalMax(u.second[p]).value })
                ELSE LocalMax(u.cell[p]).value

\* MinAll / MaxAll
MinAll(u) == SetMin({ LocalMinT(u, p) : p \in Partitions })
MaxAll(u) == SetMax({ LocalMaxT(u, p) : p \in Partitions })

\* if (minT < -1.e9 || maxT > 1.e8) return false
AdmissibleInclusive(minT, maxT) == ~(minT <= MinAdmissible \/ maxT >= MaxAdmissible)
Admissible(minT, maxT) == ~(minT < MinAdmissible \/ maxT > MaxAdmissible)

\* MPI_MINLOC / MPI_MAXLOC over (value, gid) pairs: the extremal value, and
\* the lowest index among the pairs holding it
MinLoc(pairs) ==
  LET v == SetMin({ q.value : q \in pairs })
  IN  [value |-> v, gid |-> SetMin({ q.gid : q \in { r \in pairs : r.value = v } })]
MaxLoc(pairs) ==
  LET v == SetMax({ q.value : q \in pairs })
  IN  [value |-> v, gid |-> SetMin({ q.gid : q \in { r \in pairs : r.value = v } })]

\* one line of the diagnostic, "   cells (min/max): [gid] value, [gid] value";
\* the line of the face component carries the same label
ExtremaLine(comp) ==
  [label |-> "cells",
   min |-> MinLoc({ [value |-> LocalMin(comp[p]).value, gid |-> GID(p, LocalMin(comp[p]).id)]
                     : p \in Partitions }),
   max |-> MaxLoc({ [value |-> LocalMax(comp[p]).value, gid |-> GID(p, LocalMax(comp[p]).id)]
                     : p \in Partitions })]

NoReport == [kind |-> "none"]
Report(u) ==
  IF HasFace(u)
    THEN [kind |-> "extrema", comps |-> {"cell", "face"},
          cell |-> ExtremaLine(u.cell), face |-> ExtremaLine(u.second)]
    ELSE [kind |-> "extrema", comps |-> {"cell"}, cell |-> ExtremaLine(u.cell)]

UniformTrial(comps, b) ==
  [comps |-> comps,
   cell |-> [p \in Partitions |-> [i \in LocalIds |-> b]],
   second |-> [p \in Partitions |-> [i \in LocalIds |-> b]]]

TrialLayouts == { {"cell", "face"}, {"cell", "boundary_face"} }

AdmInit ==
  /\ up = UniformTrial({"cell", "face"}, 0)
  /\ verbosity \in { VerbosityLevels[i] : i \in 1 .. Len(VerbosityLevels) }
  /\ adm = [kind |-> "none"]

\* the nonlinear solver proposes a trial iterate: a uniform field ...
ProposeTrial ==
  /\ \E comps \in TrialLayouts, b \in TrialValues : up' = UniformTrial(comps, b)
  /\ adm' = [kind |-> "none"]
  /\ UNCHANGED verbosity

\* ... or a uniform field with one entry, of the first or of the second
\* component, set apart
PerturbTrial ==
  /\ up = UniformTrial(up.comps, up.cell[0][0])
  /\ \E v \in TrialValues, p \in Partitions, i \in LocalIds, first \in BOOLEAN :
       up' = IF first THEN [up EXCEPT !.cell[p][i] = v]
                      ELSE [up EXCEPT !.second[p][i] = v]
  /\ up' # up
  /\ adm' = [kind |-> "none"]
  /\ UNCHANGED verbosity

IsAdmissible ==
  /\ adm.kind = "none"
  /\ LET ok == Admissible(MinAll(up), MaxAll(up))
     IN  adm' = [kind |-> "ran",
                 ret |-> [p \in Partitions |-> ok],
                 report |-> IF (~ok) /\ OsOK(verbosity, "medium") THEN Report(up)
                                                                  ELSE NoReport]
  /\ UNCHANGED << up, verbosity >>

AdmNext ==
  \/ ProposeTrial
  \/ PerturbTrial
  \/ IsAdmissible

(***************************************************************************)
(* EnergyBase::enorm.  Ratios are exact rationals [n, d] in lowest terms.  *)
(* Energies and cell residuals are in units of 1e6; the face scale         *)
(* 1e-4 / (atol + rtol*273.15) is n / (100 * (100*atol + 27315*rtol)).     *)
(***************************************************************************)
RECURSIVE GCD(_, _)
GCD(a, b) == IF b = 0 THEN a ELSE GCD(b, a % b)
Abs(x) == IF x < 0 THEN -x ELSE x
Rat(n, d) == LET g == GCD(n, d) IN [n |-> n \div g, d |-> d \div g]
RatZero == [n |-> 0, d |-> 1]
RatGT(a, b) == a.n * b.d > b.n * a.d
RatAdd(a, b) == Rat(a.n * b.d + b.n * a.d, a.d * b.d)
RatMax(a, b) == IF RatGT(b, a) THEN b ELSE a

Tolerances == { 1, 2 }
StepSizes == { 1, 2 }
CellResiduals == { -3, 0, 2 }
FaceResiduals == { -5483000, 0, 2741500, 1000000 }
EnergyAt(p, c) == 4 * ((p + c) % 3) - 4
CellVolumeAt(p, c) == 1 + ((p + c) % 2)

VARIABLES
  en_in,     \* what enorm reads: du, tolerances, time step, verbosity
  en_out     \* what the last enorm call returned on each partition

enVars == << en_in, en_out >>

\* |h*res_c| / (atol*cv*2e6 + rtol*|energy|)
CellRatio(in, p, c) ==
  Rat(Abs(in.h * in.res_c[p][c]),
      in.atol * CellVolumeAt(p, c) * 2 + in.rtol * Abs(EnergyAt(p, c)))
\* 1e-4 * |res_f| / (atol + rtol*273.15)
FaceRatio(in, p, f) ==
  Rat(Abs(in.res_f[p][f]), 100 * (100 * in.atol + 27315 * in.rtol))

\* the loops of lines 370-387, starting from 0
RECURSIVE EnormCell(_, _, _, _)
EnormCell(in, p, c, acc) ==
  IF c = NumLocal THEN acc
  ELSE EnormCell(in, p, c + 1,
                 IF RatGT(CellRatio(in, p, c), acc) THEN CellRatio(in, p, c) ELSE acc)
RECURSIVE EnormFace(_, _, _, _)
EnormFace(in, p, f, acc) ==
  IF f = NumLocal THEN acc
  ELSE EnormFace(in, p, f + 1, RatMax(acc, FaceRatio(in, p, f)))

\* MPI_Allreduce(..., MPI_MAX, ...) of one value per partition
RECURSIVE AllreduceSum(_, _)
AllreduceSum(buf, n) ==
  IF n = 0 THEN RatZero ELSE RatAdd(AllreduceSum(buf, n - 1), buf[n - 1])
RECURSIVE AllreduceMaxUpTo(_, _)
AllreduceMaxUpTo(buf, n) ==
  IF n = 1 THEN buf[0] ELSE RatMax(AllreduceMaxUpTo(buf, n - 1), buf[n - 1])
AllreduceMaxAsSum(buf) == AllreduceSum(buf, NumPartitions)
AllreduceMax(buf) == AllreduceMaxUpTo(buf, NumPartitions)

\* the value returned on partition p
EnormValue(in, p) ==
  LET cell0 == [q \in Partitions |-> EnormCell(in, q, 0, RatZero)]
      face0 == [q \in Partitions |-> EnormFace(in, q, 0, RatZero)]
      \* the verbose block reduces both partial norms in place
      cell1 == IF in.verbose THEN [q \in Partitions |-> AllreduceMax(cell0)] ELSE cell0
      face1 == IF in.verbose THEN [q \in Partitions |-> AllreduceMax(face0)] ELSE face0
      buf == [q \in Partitions |-> RatMax(face1[q], cell1[q])]
  IN  AllreduceMax(buf)

UniformResidual(rc, rf) ==
  [res_c |-> [p \in Partitions |-> [c \in LocalIds |-> rc]],
   res_f |-> [p \in Partitions |-> [f \in LocalIds |-> rf]]]

EnormInit ==
  /\ en_in = [res_c |-> UniformResidual(0, 0).res_c, res_f |-> UniformResidual(0, 0).res_f,
              atol |-> 1, rtol |-> 1, h |-> 1, verbose |-> FALSE]
  /\ en_out = [kind |-> "none"]

\* the time integrator hands over a residual: zero but for one cell entry
\* and one face entry
NewCellResidual ==
  /\ \E rc \in CellResiduals, p \in Partitions, i \in LocalIds :
       en_in' = [en_in EXCEPT !.res_c = [UniformResidual(0, 0).res_c EXCEPT ![p][i] = rc]]
  /\ en_out' = [kind |-> "none"]

NewFaceResidual ==
  /\ \E rf \in FaceResiduals, q \in Partitions, j \in LocalIds :
       en_in' = [en_in EXCEPT !.res_f = [UniformResidual(0, 0).res_f EXCEPT ![q][j] = rf]]
  /\ en_out' = [kind |-> "none"]

\* tolerances and verbosity come from the parameter list, h from the step
Configure ==
  /\ \E a \in Tolerances, r \in Tolerances, h \in StepSizes, verbose \in BOOLEAN :
       en_in' = [en_in EXCEPT !.atol = a, !.rtol = r, !.h = h, !.verbose = verbose]
  /\ en_out' = [kind |-> "none"]

enorm ==
  /\ en_out.kind = "none"
  /\ en_out' = [kind |-> "ran", val |-> [p \in Partitions |-> EnormValue(en_in, p)]]
  /\ UNCHANGED en_in

EnormNext ==
  \/ NewCellResidual
  \/ NewFaceResidual
  \/ Configure
  \/ enorm

(***************************************************************************)
(* EnergyBase::fun.  One partition; the fields of S_next_ follow the       *)
(* iterate u_new, S_inter_ is the state at the start of the step.  The     *)
(* diffusion and advection operators are library objects: their results   *)
(* are functions of the fields and boundary data handed to them.           *)
(***************************************************************************)
MaxIter == 2

Cells == LocalIds
Iterates == 0 .. 1
NewTimes == 1 .. 2
BCTemperatureValue(t) == 27000 + 10 * t
BCFluxValue(t) == 4 * t
EnergyAtCell(u, t, c) == 2 * (u + t + c)
SourceAtCell(u, c) == 3 + u + c
ScribbleValues == { -7, 9 }

VARIABLES
  niter_,             \* the iteration counter
  g,                  \* the residual vector handed to fun (cells)
  u_new,              \* the iterate, and with it the fields of S_next_
  t_next,             \* S_next_->time(); S_inter_->time() is 0
  is_source_term_,    \* whether a source evaluator is configured
  negres_adds,        \* whether the operator's residual is added to g or replaces it
  bc_energy,          \* markers and values of the energy boundary conditions
  fields,             \* for each evaluated field of S_next_, the inputs it was last evaluated at
  fun_out,            \* the last call of fun: what it read and what it wrote
  fun_prev            \* the call before it

funVars == << niter_, g, u_new, t_next, is_source_term_, negres_adds,
              bc_energy, fields, fun_out, fun_prev >>

\* evaluator->HasFieldChanged(S, name): a stale field is re-evaluated at the
\* current inputs before it is read
SkipEvaluator(cached, current) == cached
HasFieldChanged(cached, current) == current

\* bc_temperature_->Compute(t); bc_flux_->Compute(t); UpdateBoundaryConditions_()
EnergyUpdateBoundaryConditions_(t) ==
  [f \in 0 .. 1 |-> IF f = 0 THEN [marker |-> "DIRICHLET", value |-> BCTemperatureValue(t)]
                             ELSE [marker |-> "NEUMANN", value |-> BCFluxValue(t)]]

\* res->PutScalar(0.0)
KeepResidual(res) == res
PutScalarZero(res) == [c \in Cells |-> 0]

\* matrix_->ComputeNegativeResidual(temp, g): A*T - rhs for the stiffness
\* matrix of the conductivity at u with the boundary conditions applied
NegativeResidual(u, bc, c) == (c + 1) * (u + 1) * 5 - bc[1].value - (bc[0].value - 27000)
ApplyDiffusion_(res, u, bc, adds) ==
  [c \in Cells |-> IF adds THEN res[c] + NegativeResidual(u, bc, c)
                           ELSE NegativeResidual(u, bc, c)]

\* g += (e1 - e0) / dt, dt the difference of the two states' times
AddAccumulation_(res, flds, u, tn) ==
  LET e1 == HasFieldChanged(flds.energy, [u |-> u, t |-> tn])
      e0 == HasFieldChanged(flds.energy_old, [u |-> 0, t |-> 0])
      dt == tn - 0
  IN  [c \in Cells |-> res[c] + (EnergyAtCell(e1.u, e1.t, c) - EnergyAtCell(e0.u, e0.t, c)) \div dt]

\* advection_->Apply(bc_flux_) on the enthalpy field; g -= field (negate)
AdvectionField(u, bc, c) == 7 * (u + 1) + c + bc[1].value
AddAdvectionSubtracts(res, flds, u, bc, negate) ==
  [c \in Cells |-> res[c] - AdvectionField(HasFieldChanged(flds.enthalpy, u), bc, c)]
AddAdvection_(res, flds, u, bc, negate) ==
  LET h == HasFieldChanged(flds.enthalpy, u)
  IN  [c \in Cells |-> IF negate THEN res[c] - AdvectionField(h, bc, c)
                                 ELSE res[c] + AdvectionField(h, bc, c)]

\* g -= source, if a source term is configured
AddSourcesAdds(res, flds, u, src) ==
  [c \in Cells |-> IF src THEN res[c] + SourceAtCell(HasFieldChanged(flds.source, u), c) ELSE res[c]]
AddSources_(res, flds, u, src) ==
  [c \in Cells |-> IF src THEN res[c] - SourceAtCell(HasFieldChanged(flds.source, u), c)
                          ELSE res[c]]

\* the fields of S_next_ after the terms have pulled them through their evaluators
FieldsAfterFun(flds, u, tn, src) ==
  [energy |-> HasFieldChanged(flds.energy, [u |-> u, t |-> tn]),
   energy_old |-> HasFieldChanged(flds.energy_old, [u |-> 0, t |-> 0]),
   enthalpy |-> HasFieldChanged(flds.enthalpy, u),
   source |-> IF src THEN HasFieldChanged(flds.source, u) ELSE flds.source]

\* the residual after each term, as fun dumps it ("res (post diffusion)", ...)
FunStagesDiffusionLast(res, flds, u, tn, bc, src, adds) ==
  LET post_accumulation == AddAccumulation_(PutScalarZero(res), flds, u, tn)
      post_advection == AddAdvection_(post_accumulation, flds, u, bc, TRUE)
      post_source == AddSources_(post_advection, flds, u, src)
      post_diffusion == ApplyDiffusion_(post_source, u, bc, adds)
  IN  [post_diffusion |-> post_diffusion, post_accumulation |-> post_accumulation,
       post_advection |-> post_advection, post_source |-> post_diffusion]
FunStages(res, flds, u, tn, bc, src, adds) ==
  LET post_diffusion == ApplyDiffusion_(PutScalarZero(res), u, bc, adds)
      post_accumulation == AddAccumulation_(post_diffusion, flds, u, tn)
      post_advection == AddAdvection_(post_accumulation, flds, u, bc, TRUE)
      post_source == AddSources_(post_advection, flds, u, src)
  IN  [post_diffusion |-> post_diffusion, post_accumulation |-> post_accumulation,
       post_advection |-> post_advection, post_source |-> post_source]

FunResidual(res, flds, u, tn, bc, src, adds) ==
  FunStages(res, flds, u, tn, bc, src, adds).post_source

NoCall == [kind |-> "none"]

FunInit ==
  /\ niter_ = 0
  /\ g = [c \in Cells |-> 0]
  /\ u_new = 0
  /\ t_next = 1
  /\ is_source_term_ \in BOOLEAN
  /\ negres_adds \in BOOLEAN
  /\ bc_energy = EnergyUpdateBoundaryConditions_(0)
  /\ fields = [energy |-> [u |-> 0, t |-> 1], energy_old |-> [u |-> 0, t |-> 0],
               enthalpy |-> 0, source |-> 0]
  /\ fun_out = NoCall
  /\ fun_prev = NoCall

fun ==
  /\ niter_ < MaxIter
  /\ \E t_old \in 0 .. 1, t_new \in NewTimes :
       /\ t_old < t_new
       /\ LET bc == EnergyUpdateBoundaryConditions_(t_new)
              res == FunResidual(g, fields, u_new, t_next, bc, is_source_term_, negres_adds)
          IN  /\ niter_' = niter_ + 1
              /\ bc_energy' = bc
              /\ fields' = FieldsAfterFun(fields, u_new, t_next, is_source_term_)
              /\ g' = res
              /\ fun_out' = [kind |-> "ran",
                             inputs |-> [t_old |-> t_old, t_new |-> t_new, u_new |-> u_new,
                                         time |-> t_next, source |-> is_source_term_],
                             g_before |-> g, niter_before |-> niter_, g |-> res,
                             fields_before |-> fields, bc |-> bc,
                             stages |-> FunStages(g, fields, u_new, t_next, bc,
                                                  is_source_term_, negres_adds)]
              /\ fun_prev' = fun_out
  /\ UNCHANGED << u_new, t_next, is_source_term_, negres_adds >>

\* the nonlinear solver moves to another iterate
NewIterate ==
  /\ \E u \in Iterates : u # u_new /\ u_new' = u
  /\ UNCHANGED << niter_, g, t_next, is_source_term_, negres_adds, bc_energy, fields, fun_out, fun_prev >>

\* the integrator retries the step with another size
NewStepSize ==
  /\ \E t \in NewTimes : t # t_next /\ t_next' = t
  /\ UNCHANGED << niter_, g, u_new, is_source_term_, negres_adds, bc_energy, fields, fun_out, fun_prev >>

\* the caller hands over a residual vector with other content
ScribbleResidual ==
  /\ \E v \in ScribbleValues : g' = [c \in Cells |-> v]
  /\ g' # g
  /\ UNCHANGED << niter_, u_new, t_next, is_source_term_, negres_adds, bc_energy, fields, fun_out, fun_prev >>

FunNext ==
  \/ fun
  \/ NewIterate
  \/ NewStepSize
  \/ ScribbleResidual

(***************************************************************************)
(* EnergyBase::AddAdvection_ called on its own, by a formulation that      *)
(* chooses the sign.                                                       *)
(***************************************************************************)
VARIABLES
  adv_out,     \* the last call of AddAdvection_: what it read and what it wrote
  adv_prev     \* the call before it

advVars == << adv_out, adv_prev >>

AdvInit ==
  /\ adv_out = [kind |-> "none", count |-> 0]
  /\ adv_prev = [kind |-> "none", count |-> 0]

AddAdvection ==
  /\ adv_out.count < MaxIter
  /\ \E negate \in BOOLEAN :
       /\ g' = AddAdvection_(g, fields, u_new, bc_energy, negate)
       /\ adv_out' = [kind |-> "ran", count |-> adv_out.count + 1, negate |-> negate,
                      inputs |-> [u_new |-> u_new, bc |-> bc_energy],
                      enthalpy_before |-> fields.enthalpy, g_before |-> g, g |-> g']
  /\ fields' = [fields EXCEPT !.enthalpy = HasFieldChanged(fields.enthalpy, u_new)]
  /\ adv_prev' = adv_out
  /\ UNCHANGED << niter_, u_new, t_next, is_source_term_, negres_adds, bc_energy,
                  fun_out, fun_prev >>

AdvNext ==
  \/ AddAdvection
  \/ (NewIterate /\ UNCHANGED advVars)
  \/ (ScribbleResidual /\ UNCHANGED advVars)

(***************************************************************************)
(* EnergyBase::update_precon and AddSourcesToPrecon_.  Acc_cells is the    *)
(* cell diagonal of the preconditioner; the library calls made after the   *)
(* boundary conditions are applied are recorded in order.                  *)
(***************************************************************************)
AtmosphericPressure == 101325
TimeTolerancePerTenThousand == 1
PreconTimes == 0 .. 2
StiffnessDiagonal(u, c) == 10 * (1 + u) + c
DeDT(u, c) == 2 * (1 + u + c)
DSourceDT(u, c) == 1 + u + 2 * c
PreconSurfacePressure(u, c) == AtmosphericPressure + ((u + c) % 3) - 1

VARIABLES
  coupled_to_subsurface_via_temp_,
  coupled_to_subsurface_via_flux_,
  assemble_preconditioner_,
  source_depends_on_key,   \* the source evaluator's IsDependency(S, key_)
  Acc_cells,               \* mfd_preconditioner_->Acc_cells()
  dfields,                 \* the iterate each derivative field was last evaluated at
  precon_out               \* the last call of update_precon

preVars == << coupled_to_subsurface_via_temp_, coupled_to_subsurface_via_flux_,
              assemble_preconditioner_, source_depends_on_key, Acc_cells, dfields,
              precon_out >>

\* evaluator->HasFieldDerivativeChanged(S, name, key): a stale derivative is
\* re-evaluated at the current inputs before it is read
HasFieldDerivativeChanged(cached, current) == current

\* ASSERT(std::abs(S_next_->time() - t) <= 1.e-4*t), times 1e4
TimeAssertion(tn, t) == Abs(tn - t) * 10000 <= TimeTolerancePerTenThousand * t

\* CreateMFDstiffnessMatrices(conductivity) fills the cell diagonal
CreateMFDstiffnessMatrices(acc, u) == [c \in Cells |-> StiffnessDiagonal(u, c)]

\* pres[0][c] >= patm ? de_dT[0][c] / h : 0.
PondedStrictly(pres, patm) == pres > patm
Ponded(pres, patm) == pres >= patm

\* Acc_cells[c] += de_dT / h, or nothing on a dry surface cell when coupled
AddAccumulationToPrecon(acc, dflds, u, h, coupled) ==
  LET d == HasFieldDerivativeChanged(dflds.de_dT, u)
  IN  [c \in Cells |->
         IF coupled
           THEN acc[c] + (IF Ponded(PreconSurfacePressure(u, c), AtmosphericPressure)
                            THEN DeDT(d, c) \div h ELSE 0)
           ELSE acc[c] + DeDT(d, c) \div h]

\* Acc_cells[c] -= dsource_dT[0][c], if the source depends on the temperature
AddSourcesToPreconAlways(acc, dflds, u, src, depends) ==
  [c \in Cells |-> IF src THEN acc[c] - DSourceDT(HasFieldDerivativeChanged(dflds.dsource_dT, u), c)
                          ELSE acc[c]]
AddSourcesToPrecon_(acc, dflds, u, src, depends) ==
  [c \in Cells |-> IF src /\ depends
                     THEN acc[c] - DSourceDT(HasFieldDerivativeChanged(dflds.dsource_dT, u), c)
                     ELSE acc[c]]

\* the calls after ApplyBoundaryConditions
AssembleSteps(coupled, assemble) ==
  IF coupled THEN << "AssembleGlobalMatrices" >>
  ELSE IF assemble THEN << "AssembleGlobalMatrices", "ComputeSchurComplement",
                          "UpdatePreconditioner" >>
  ELSE << >>

\* the calls of update_precon on the operator, in program order
PreconOrderSourceLast(coupled, assemble) ==
  << "UpdateBoundaryConditions_", "CreateMFDstiffnessMatrices", "AddAccumulation",
     "ApplyBoundaryConditions" >> \o AssembleSteps(coupled, assemble)
     \o << "AddSourcesToPrecon_" >>
PreconOrder(coupled, assemble) ==
  << "UpdateBoundaryConditions_", "CreateMFDstiffnessMatrices", "AddAccumulation",
     "AddSourcesToPrecon_", "ApplyBoundaryConditions" >> \o AssembleSteps(coupled, assemble)

PreconStages(acc, dflds, u, h, coupled, src, depends) ==
  LET stiffness == CreateMFDstiffnessMatrices(acc, u)
      post_accumulation == AddAccumulationToPrecon(stiffness, dflds, u, h, coupled)
      post_source == AddSourcesToPrecon_(post_accumulation, dflds, u, src, depends)
  IN  [stiffness |-> stiffness, post_accumulation |-> post_accumulation,
       post_source |-> post_source]

PreconInit ==
  /\ coupled_to_subsurface_via_temp_ \in BOOLEAN
  /\ coupled_to_subsurface_via_flux_ \in BOOLEAN
  /\ assemble_preconditioner_ \in BOOLEAN
  /\ source_depends_on_key \in BOOLEAN
  /\ Acc_cells = [c \in Cells |-> 0]
  /\ dfields = [de_dT |-> 0, dsource_dT |-> 0]
  /\ precon_out = [kind |-> "none"]

update_precon ==
  /\ precon_out.kind # "aborted"
  /\ \E t \in PreconTimes, h \in StepSizes :
       IF ~TimeAssertion(t_next, t)
         THEN /\ precon_out' = [kind |-> "aborted"]
              /\ UNCHANGED << Acc_cells, dfields, bc_energy >>
         ELSE LET coupled == coupled_to_subsurface_via_temp_ \/ coupled_to_subsurface_via_flux_
                  depends == is_source_term_ /\ source_depends_on_key
                  stages == PreconStages(Acc_cells, dfields, u_new, h, coupled,
                                         is_source_term_, source_depends_on_key)
              IN  /\ bc_energy' = EnergyUpdateBoundaryConditions_(t_next)
                  /\ Acc_cells' = stages.post_source
                  /\ dfields' = [de_dT |-> HasFieldDerivativeChanged(dfields.de_dT, u_new),
                                 dsource_dT |-> IF depends
                                                  THEN HasFieldDerivativeChanged(dfields.dsource_dT, u_new)
                                                  ELSE dfields.dsource_dT]
                  /\ precon_out' = [kind |-> "ran", t |-> t, h |-> h, u_new |-> u_new,
                                    coupled |-> coupled, source |-> is_source_term_,
                                    depends |-> source_depends_on_key,
                                    assemble |-> assemble_preconditioner_,
                                    acc_before |-> Acc_cells, dfields_before |-> dfields,
                                    stages |-> stages,
                                    steps |-> AssembleSteps(coupled, assemble_preconditioner_),
                                    time |-> t_next, bc |-> bc_energy',
                                    order |-> PreconOrder(coupled, assemble_preconditioner_)]
  /\ UNCHANGED << coupled_to_subsurface_via_temp_, coupled_to_subsurface_via_flux_,
                  assemble_preconditioner_, source_depends_on_key >>
  /\ UNCHANGED << niter_, g, u_new, t_next, is_source_term_, negres_adds, fields,
                  fun_out, fun_prev >>

PreconNext ==
  \/ update_precon
  \/ (precon_out.kind # "aborted" /\ NewIterate /\ UNCHANGED preVars)
  \/ (precon_out.kind # "aborted" /\ NewStepSize /\ UNCHANGED preVars)

(***************************************************************************)
(* Partial-derivative routines of the secondary-variable evaluators:       *)
(* RichardsWaterContent, AdvectedEnergySourceEvaluator, EOSEvaluator.  The *)
(* caller hands in the vector result and a key wrt_key; the call record    *)
(* says whether the routine returned and what result holds afterwards.     *)
(***************************************************************************)
RichardsWaterContentDependencies ==
  { "porosity", "saturation_liquid", "molar_density_liquid", "saturation_gas",
    "molar_density_gas", "mol_frac_gas" }

AdvectedEnergySourceDependencies(conduction) ==
  { "enthalpy", "mass_source_enthalpy", "mass_source", "molar_density_liquid",
    "source_molar_density" }
    \cup (IF conduction THEN { "conducted_energy_source" } ELSE { })

EOSDependencies == { "temperature", "effective_pressure" }

\* the keys a caller may ask for: every declared dependency and two fields of
\* the state that no evaluator here declares
WrtKeys ==
  RichardsWaterContentDependencies \cup AdvectedEnergySourceDependencies(TRUE)
    \cup EOSDependencies \cup { "cell_volume", "pressure" }

\* S->GetFieldData(key) on cell c, in state scenario s
FieldData(key, s, c) ==
  CASE key = "porosity" -> 2 + s
    [] key = "saturation_liquid" -> 1 + c
    [] key = "molar_density_liquid" -> 3 + s + c
    [] key = "saturation_gas" -> 2 - s + c
    [] key = "molar_density_gas" -> 1 + 2 * c
    [] key = "mol_frac_gas" -> 1 + s
    [] key = "enthalpy" -> 4 + c
    [] key = "mass_source_enthalpy" -> 6 + s
    [] key = "mass_source" -> 2 * c - 1 + s
    [] key = "source_molar_density" -> 7 + c
    [] key = "cell_volume" -> 2 + c
    [] key = "conducted_energy_source" -> 1 + s
    [] OTHER -> 1

ResultVectors == { [c \in Cells |-> v] : v \in { 0, 7 } }

VARIABLES
  include_conduction_,   \* AdvectedEnergySourceEvaluator's "include conduction"
  ev_state,              \* the state scenario the evaluators read
  result,                \* the vector the caller hands to the routine
  deriv_out              \* the last call of a partial-derivative routine

evVars == << include_conduction_, ev_state, result, deriv_out >>

\* RichardsWaterContent::EvaluateFieldPartialDerivative_: a chain of
\* if / else if over the six dependencies, with no final else
RichardsWaterContentPartialDerivative(wrt_key, s, res) ==
  LET phi(c) == FieldData("porosity", s, c)
      s_l(c) == FieldData("saturation_liquid", s, c)
      n_l(c) == FieldData("molar_density_liquid", s, c)
      s_g(c) == FieldData("saturation_gas", s, c)
      n_g(c) == FieldData("molar_density_gas", s, c)
      omega_g(c) == FieldData("mol_frac_gas", s, c)
  IN  IF wrt_key = "porosity"
        THEN [c \in Cells |-> s_l(c) * n_l(c) + s_g(c) * n_g(c) * omega_g(c)]
      ELSE IF wrt_key = "saturation_liquid"
        THEN [c \in Cells |-> phi(c) * n_l(c)]
      ELSE IF wrt_key = "molar_density_liquid"
        THEN [c \in Cells |-> phi(c) * s_l(c)]
      ELSE IF wrt_key = "saturation_gas"
        THEN [c \in Cells |-> phi(c) * n_g(c) * omega_g(c)]
      ELSE IF wrt_key = "molar_density_gas"
        THEN [c \in Cells |-> phi(c) * s_g(c) * omega_g(c)]
      ELSE IF wrt_key = "mol_frac_gas"
        THEN [c \in Cells |-> phi(c) * s_g(c) * n_g(c)]
      ELSE res

\* AdvectedEnergySourceEvaluator::EvaluateFieldPartialDerivative_:
\* result->PutScalar(0.) whatever the key
AdvectedEnergySourcePartialDerivative(wrt_key, s, res) == [c \in Cells |-> 0]

\* EOSEvaluator::UpdateDerivative_: the whole body, its final ASSERT(0)
\* included, is commented out
EOSUpdateDerivative_(wrt_key, s, res) == res

\* AdvectedEnergySourceEvaluator::EvaluateField_, with the default keys:
\* the fields it asks the state for, and the vector it leaves in result.
\* ext_dens is fetched under internal_density_key_.
AdvectedEnergySourceReads(conduction) ==
  { "enthalpy", "mass_source_enthalpy", "mass_source", "molar_density_liquid",
    "cell_volume" }
    \cup (IF conduction THEN { "conducted_energy_source" } ELSE { })

AdvectedEnergySource(s, conduction) ==
  LET int_enth(c) == FieldData("enthalpy", s, c)
      ext_enth(c) == FieldData("mass_source_enthalpy", s, c)
      mass_source(c) == FieldData("mass_source", s, c)
      int_dens(c) == FieldData("molar_density_liquid", s, c)
      ext_dens(c) == FieldData("molar_density_liquid", s, c)
      cv(c) == FieldData("cell_volume", s, c)
      cond(c) == FieldData("conducted_energy_source", s, c)
      res(c) == IF mass_source(c) > 0
                  THEN cv(c) * mass_source(c) * ext_dens(c) * ext_enth(c)
                  ELSE cv(c) * mass_source(c) * int_dens(c) * int_enth(c)
  IN  [c \in Cells |-> IF conduction THEN res(c) + cv(c) * cond(c) ELSE res(c)]

EvInit ==
  /\ include_conduction_ \in BOOLEAN
  /\ ev_state = 0
  /\ result \in ResultVectors
  /\ deriv_out = [kind |-> "none"]

EvRest == EvInit /\ ~include_conduction_ /\ result = [c \in Cells |-> 0]

Returned(evaluator, deps, wrt_key, res) ==
  [kind |-> "returned", evaluator |-> evaluator, dependencies |-> deps,
   wrt_key |-> wrt_key, result_before |-> result, result |-> res]

RichardsWaterContent_EvaluateFieldPartialDerivative_ ==
  /\ \E wrt_key \in WrtKeys :
       /\ result' = RichardsWaterContentPartialDerivative(wrt_key, ev_state, result)
       /\ deriv_out' = Returned("RichardsWaterContent", RichardsWaterContentDependencies,
                                wrt_key, result')
  /\ UNCHANGED << include_conduction_, ev_state >>

AdvectedEnergySource_EvaluateFieldPartialDerivative_ ==
  /\ \E wrt_key \in WrtKeys :
       /\ result' = AdvectedEnergySourcePartialDerivative(wrt_key, ev_state, result)
       /\ deriv_out' = Returned("AdvectedEnergySourceEvaluator",
                                AdvectedEnergySourceDependencies(include_conduction_),
                                wrt_key, result')
  /\ UNCHANGED << include_conduction_, ev_state >>

AdvectedEnergySource_EvaluateField_ ==
  /\ result' = AdvectedEnergySource(ev_state, include_conduction_)
  /\ deriv_out' = [kind |-> "evaluated", evaluator |-> "AdvectedEnergySourceEvaluator",
                   dependencies |-> AdvectedEnergySourceDependencies(include_conduction_),
                   reads |-> AdvectedEnergySourceReads(include_conduction_),
                   state |-> ev_state, result |-> result']
  /\ UNCHANGED << include_conduction_, ev_state >>

EOSEvaluator_UpdateDerivative_ ==
  /\ \E wrt_key \in WrtKeys :
       /\ result' = EOSUpdateDerivative_(wrt_key, ev_state, result)
       /\ deriv_out' = Returned("EOSEvaluator", EOSDependencies, wrt_key, result')
  /\ UNCHANGED << include_conduction_, ev_state >>

\* the caller allocates or reuses a result vector
NewResult ==
  /\ result' \in ResultVectors
  /\ UNCHANGED << include_conduction_, ev_state, deriv_out >>

\* the dependencies take new values
NewFieldData ==
  /\ ev_state' \in Scenarios \ { ev_state }
  /\ UNCHANGED << include_conduction_, result, deriv_out >>

EvNext ==
  \/ RichardsWaterContent_EvaluateFieldPartialDerivative_
  \/ AdvectedEnergySource_EvaluateFieldPartialDerivative_
  \/ AdvectedEnergySource_EvaluateField_
  \/ EOSEvaluator_UpdateDerivative_
  \/ NewResult
  \/ NewFieldData

(***************************************************************************)
(* Enumerated options read from parameter lists at setup or construction:  *)
(* "update flux mode" and "relative permeability method" (Richards setup), *)
(* "Krel function name" (WRMVanGenuchten), "EOS basis" (EOSEvaluator).    *)
(* A message is the sequence of its words; the value read from the list    *)
(* is one word.  A failed ASSERT stops the program with no message of the  *)
(* programmer's.                                                           *)
(***************************************************************************)
NotSet == "(not in the list)"
UnknownValue == "sometimes"

KrelMethodNames ==
  { "upwind with gravity", "cell centered", "upwind with Darcy flux", "arithmetic mean" }
KrelFunctionNames == { "Mualem", "Burdine" }
EOSBases == { "molar", "mass", "both" }

UpdateFluxModeKey == << "update", "flux", "mode" >>
KrelMethodKey == << "relative", "permeability", "method" >>
KrelFunctionKey == << "Krel", "function", "name" >>
EOSBasisKey == << "EOS", "basis" >>

\* plist.get<std::string>(key, default)
Get(value, default) == IF value = NotSet THEN default ELSE value

OptionPlists ==
  [update_flux_mode : UpdateFluxModes \cup { NotSet, UnknownValue },
   via_flux : BOOLEAN, via_head : BOOLEAN,
   method_name : KrelMethodNames \cup { NotSet, UnknownValue },
   fname : KrelFunctionNames \cup { NotSet, UnknownValue },
   mode : EOSBases \cup { NotSet, UnknownValue }]

VARIABLES
  opt_plist,    \* the parameter lists of the three objects
  setup_out,    \* how the option part of Richards::SetupRichardsFlow_ ended
  wrm_out,      \* how WRMVanGenuchten::InitializeFromPlist_ ended
  eos_out       \* how the constructor of EOSEvaluator ended

optVars == << opt_plist, setup_out, wrm_out, eos_out >>

UnknownUpdateFluxMessage(updatestring) ==
  << "Unknown", "frequence", "for", "updating", "the", "overland", "flux:",
     updatestring >>

NoUpwindingMessage(method_name) ==
  << "Richards", "Flow", "PK", "has", "no", "upwinding", "method", "named:",
     method_name >>

KrelMethod(method_name) ==
  CASE method_name = "upwind with gravity" -> "UPWIND_METHOD_GRAVITY"
    [] method_name = "cell centered" -> "UPWIND_METHOD_CENTERED"
    [] method_name = "upwind with Darcy flux" -> "UPWIND_METHOD_TOTAL_FLUX"
    [] method_name = "arithmetic mean" -> "UPWIND_METHOD_ARITHMETIC_MEAN"
    [] OTHER -> "unset"

\* the options of Richards::SetupRichardsFlow_ in the order the code reads
\* them: the flux update mode, the coupling flags and their ASSERT, the
\* upwinding method
RichardsSetupOptions(pl) ==
  LET updatestring == Get(pl.update_flux_mode, "iteration")
      method_name == Get(pl.method_name, "upwind with gravity")
      update_flux == UpdateFluxModeAfterCoupling(updatestring, pl.via_head)
  IN  IF updatestring \notin UpdateFluxModes
        THEN [pc |-> "threw", update_flux_ |-> "unset", Krel_method_ |-> "unset",
              message |-> UnknownUpdateFluxMessage(updatestring)]
      ELSE IF CouplingCheck(pl.via_flux, pl.via_head) = "aborted"
        THEN [pc |-> "aborted", update_flux_ |-> update_flux,
              Krel_method_ |-> "unset", message |-> << >>]
      ELSE IF method_name \notin KrelMethodNames
        THEN [pc |-> "threw", update_flux_ |-> update_flux, Krel_method_ |-> "unset",
              message |-> NoUpwindingMessage(method_name)]
      ELSE [pc |-> "ready", update_flux_ |-> update_flux,
            Krel_method_ |-> KrelMethod(method_name), message |-> << >>]

\* WRMVanGenuchten::InitializeFromPlist_: Mualem, Burdine, else ASSERT(0)
WRMInitializeFromPlist(pl) ==
  LET fname == Get(pl.fname, "Mualem")
  IN  IF fname = "Mualem" THEN [pc |-> "ready", function_ |-> "FLOW_WRM_MUALEM",
                                message |-> << >>]
      ELSE IF fname = "Burdine" THEN [pc |-> "ready", function_ |-> "FLOW_WRM_BURDINE",
                                      message |-> << >>]
      ELSE [pc |-> "aborted", function_ |-> "unset", message |-> << >>]

\* EOSEvaluator::EOSEvaluator: molar, mass, both, else ASSERT(0)
EOSEvaluatorConstruct(pl) ==
  LET mode == Get(pl.mode, "molar")
  IN  IF mode = "molar" THEN [pc |-> "ready", mode_ |-> "EOS_MODE_MOLAR", message |-> << >>]
      ELSE IF mode = "mass" THEN [pc |-> "ready", mode_ |-> "EOS_MODE_MASS", message |-> << >>]
      ELSE IF mode = "both" THEN [pc |-> "ready", mode_ |-> "EOS_MODE_BOTH", message |-> << >>]
      ELSE [pc |-> "aborted", mode_ |-> "unset", message |-> << >>]

NotRun == [pc |-> "constructed"]

OptInit ==
  /\ opt_plist \in OptionPlists
  /\ setup_out = NotRun
  /\ wrm_out = NotRun
  /\ eos_out = NotRun

OptRest ==
  /\ OptInit
  /\ opt_plist = [update_flux_mode |-> NotSet, via_flux |-> FALSE, via_head |-> FALSE,
                  method_name |-> NotSet, fname |-> NotSet, mode |-> NotSet]

SetupOptions ==
  /\ setup_out = NotRun
  /\ setup_out' = RichardsSetupOptions(opt_plist)
  /\ UNCHANGED << opt_plist, wrm_out, eos_out >>

WRMVanGenuchten_InitializeFromPlist_ ==
  /\ wrm_out = NotRun
  /\ wrm_out' = WRMInitializeFromPlist(opt_plist)
  /\ UNCHANGED << opt_plist, setup_out, eos_out >>

EOSEvaluator_EOSEvaluator ==
  /\ eos_out = NotRun
  /\ eos_out' = EOSEvaluatorConstruct(opt_plist)
  /\ UNCHANGED << opt_plist, setup_out, wrm_out >>

OptNext ==
  \/ SetupOptions
  \/ WRMVanGenuchten_InitializeFromPlist_
  \/ EOSEvaluator_EOSEvaluator

(***************************************************************************)
(* Richards::UpdatePermeabilityData_.  changed holds, per evaluator, what  *)
(* HasFieldChanged(S, name_) reports when next asked; asking clears it.    *)
(* The upwinding strategies and the flux operator are collaborators: each  *)
(* is a function of the fields it reads.                                   *)
(***************************************************************************)
KrelMethods == { KrelMethod(n) : n \in KrelMethodNames }

RelPermCell(p, c) == 2 + 3 * ((p + c) % 2)
RelPermBoundaryFace(p, f) == 10 + p + f
MassDensity(p, T) == 1 + p + 2 * T
\* face_matrix_diff_->UpdateFlux(*pres, *flux_dir), with density rho set
UpdateFlux(p, rho, f) == 2 * ((p + f) % 3) - rho

\* the cells on the two sides of a face
UpCell(f) == f
DownCell(f) == f + 1

VARIABLES
  Krel_method_,
  clobber_surf_kr_,
  upwind_from_prev_flux_,
  upwinding_deriv_,       \* the derivative upwinding strategy, or "null"
  changed,                \* per evaluator: reports a change to name_ when asked
  dchanged,               \* relative_permeability reports a changed derivative
  pres,                   \* version of the primary variable (key_)
  temp,                   \* version of the temperature, read by the density
  numerical_rel_perm,     \* face values of the upwinded coefficient
  dnumerical_rel_perm_dpressure,
  darcy_flux_direction,   \* face values of the flux direction
  darcy_flux,             \* face values of the flux
  touched,                \* an input changed since the last call of the routine
  perm_out,               \* the last call of UpdatePermeabilityData_
  dperm_out,              \* the last call of UpdatePermeabilityDerivativeData_
  flux_out                \* the last commit_state or calculate_diagnostics

permVars == << Krel_method_, clobber_surf_kr_, upwind_from_prev_flux_, upwinding_deriv_,
               changed, dchanged, pres, temp, numerical_rel_perm,
               dnumerical_rel_perm_dpressure, darcy_flux_direction, darcy_flux,
               touched, perm_out, dperm_out, flux_out >>

\* uw_rel_perm_f.Export(rel_perm_bf, vandelay, Insert)
ExportBoundaryFaces(uw, p) ==
  [f \in DOMAIN uw |-> IF f \in ExteriorFaces THEN RelPermBoundaryFace(p, f) ELSE uw[f]]

\* upwinding_->Update(S): boundary faces are overwritten only where the
\* wind blows out of the domain
Upwind(method, uw, p, dir) ==
  [f \in DOMAIN uw |->
     CASE method = "UPWIND_METHOD_CENTERED" -> 1
       [] method = "UPWIND_METHOD_ARITHMETIC_MEAN" ->
            IF f \in ExteriorFaces THEN uw[f]
            ELSE (RelPermCell(p, UpCell(f)) + RelPermCell(p, DownCell(f))) \div 2
       [] method = "UPWIND_METHOD_GRAVITY" ->
            IF f \in ExteriorFaces /\ f # 0 THEN uw[f] ELSE RelPermCell(p, UpCell(f))
       [] OTHER ->
            IF dir[f] > 0 THEN RelPermCell(p, UpCell(f))
            ELSE IF f \in ExteriorFaces THEN uw[f]
            ELSE IF dir[f] < 0 THEN RelPermCell(p, DownCell(f))
            ELSE (RelPermCell(p, UpCell(f)) + RelPermCell(p, DownCell(f))) \div 2]

\* update_perm |= update_dir
UpdatePermAlone(update_perm, update_dir) == update_perm
UpdatePermOr(update_perm, update_dir) == update_perm \/ update_dir

\* update_dir = HasFieldChanged(mass density); update_dir |= HasFieldChanged(key_)
UpdateDirDensityOnly(rho_changed, pres_changed) == rho_changed
UpdateDir(rho_changed, pres_changed) == rho_changed \/ pres_changed

\* matrix_diff_->UpdateFlux(*pres, *flux) on the stiffness matrix of rel_perm and rho
DeriveFlux(p, T, uw) == [f \in DOMAIN uw |-> uw[f] * UpdateFlux(p, MassDensity(p, T), f)]

\* the routine: what it returns, what it leaves in the two work fields and
\* in the evaluators' change flags.  The total-flux strategy reads
\* darcy_flux when upwind_from_prev_flux_ is set, darcy_flux_direction
\* otherwise.
UpdatePermeabilityData(method, clobber, ch, p, T, uw, dir, prev, flux) ==
  LET total == method = "UPWIND_METHOD_TOTAL_FLUX"
      update_dir == total /\ UpdateDir(ch.mass_density_liquid, ch.pressure)
      update_perm == IF total THEN UpdatePermOr(ch.relative_permeability, update_dir)
                              ELSE ch.relative_permeability
      flux_dir == IF update_dir
                    THEN [f \in DOMAIN dir |-> UpdateFlux(p, MassDensity(p, T), f)]
                    ELSE dir
      upwinded == Upwind(method, ExportBoundaryFaces(uw, p), p,
                         IF prev THEN flux ELSE flux_dir)
  IN  [ret |-> update_perm, update_dir |-> update_dir, upwinded |-> update_perm,
       numerical_rel_perm |->
         IF ~update_perm THEN uw
         ELSE IF clobber THEN ExportBoundaryFaces(upwinded, p) ELSE upwinded,
       darcy_flux_direction |-> flux_dir,
       changed |-> [relative_permeability |-> FALSE,
                    mass_density_liquid |-> (~total) /\ ch.mass_density_liquid,
                    pressure |-> (~total) /\ ch.pressure]]

\* setup creates upwinding_deriv_ in one branch only: "upwind with Darcy
\* flux" without "upwind flux from previous iteration"
UpwindingDeriv(method, prev) ==
  IF method = "UPWIND_METHOD_TOTAL_FLUX" /\ ~prev THEN "UpwindTotalFlux" ELSE "null"

PermInit ==
  /\ Krel_method_ \in KrelMethods
  /\ clobber_surf_kr_ \in BOOLEAN
  /\ upwind_from_prev_flux_ \in BOOLEAN
  /\ upwind_from_prev_flux_ => Krel_method_ = "UPWIND_METHOD_TOTAL_FLUX"
  /\ upwinding_deriv_ = UpwindingDeriv(Krel_method_, upwind_from_prev_flux_)
  /\ changed = [relative_permeability |-> TRUE, mass_density_liquid |-> TRUE,
                pressure |-> TRUE]
  /\ dchanged = TRUE
  /\ pres = 0
  /\ temp = 0
  /\ numerical_rel_perm = [f \in OwnedFaces |-> 1]
  /\ dnumerical_rel_perm_dpressure = [f \in OwnedFaces |-> 1]
  /\ darcy_flux_direction = [f \in OwnedFaces |-> 0]
  /\ darcy_flux = [f \in OwnedFaces |-> 0]
  /\ touched = FALSE
  /\ perm_out = [kind |-> "none"]
  /\ dperm_out = [kind |-> "none"]
  /\ flux_out = [kind |-> "none"]

PermRest ==
  /\ PermInit
  /\ Krel_method_ = "UPWIND_METHOD_GRAVITY"
  /\ ~clobber_surf_kr_
  /\ ~upwind_from_prev_flux_

\* upwinding_deriv_-> on a null RCP: a checked build throws, an unchecked
\* build dereferences the null pointer
NullDereferenceOutcomes == { "threw", "crashed" }

\* the program is still running
PermAlive == dperm_out.kind \notin NullDereferenceOutcomes

\* the call and its record; after says what the caller asks the evaluators
\* once the routine has returned
CallUpdatePermeabilityData(after) ==
  LET out == UpdatePermeabilityData(Krel_method_, clobber_surf_kr_, changed, pres, temp,
                                    numerical_rel_perm, darcy_flux_direction,
                                    upwind_from_prev_flux_, darcy_flux)
      \* the fields on entry are kept for comparison when the call follows
      \* another with no change of an input in between
      idle == perm_out.kind = "ran" /\ ~touched
  IN  /\ numerical_rel_perm' = out.numerical_rel_perm
      /\ darcy_flux_direction' = out.darcy_flux_direction
      /\ changed' = [e \in DOMAIN changed |-> out.changed[e] /\ e \notin after]
      /\ touched' = FALSE
      /\ perm_out' = [kind |-> "ran", first |-> perm_out.kind = "none",
                      prev_ret |-> perm_out.kind = "ran" /\ perm_out.ret,
                      touched_before |-> touched, reported |-> changed,
                      ret |-> out.ret, update_dir |-> out.update_dir,
                      upwinded |-> out.upwinded,
                      uw_before |-> IF idle THEN numerical_rel_perm ELSE << >>,
                      dir_before |-> IF idle THEN darcy_flux_direction ELSE << >>]
      /\ UNCHANGED << Krel_method_, clobber_surf_kr_, upwind_from_prev_flux_,
                      upwinding_deriv_, dchanged, pres, temp,
                      dnumerical_rel_perm_dpressure, dperm_out >>

\* called on its own, as by the flux predictor
UpdatePermeabilityData_ ==
  /\ PermAlive
  /\ CallUpdatePermeabilityData({ })
  /\ UNCHANGED << darcy_flux, flux_out >>

\* if (update_flux_ == UPDATE_FLUX_TIMESTEP ||
\*     (update_flux_ == UPDATE_FLUX_ITERATION && update))
FluxUpdateAtCommitUnlessNever(mode, update) == mode # "never"
FluxUpdateAtCommit(mode, update) ==
  mode = "timestep" \/ (mode = "iteration" /\ update)

\* Richards::commit_state: the routine, then the primary variable and the
\* mass density are asked as well, then the flux is derived if the mode
\* allows
commit_state ==
  /\ PermAlive
  /\ CallUpdatePermeabilityData({ "pressure", "mass_density_liquid" })
  /\ LET update == \/ perm_out'.ret
                   \/ (changed.pressure /\ Krel_method_ # "UPWIND_METHOD_TOTAL_FLUX")
                   \/ (changed.mass_density_liquid /\ Krel_method_ # "UPWIND_METHOD_TOTAL_FLUX")
         derive == FluxUpdateAtCommit(update_flux_, update)
     IN  /\ darcy_flux' = IF derive THEN DeriveFlux(pres, temp, numerical_rel_perm')
                                    ELSE darcy_flux
         /\ flux_out' = [kind |-> "commit_state", derived |-> derive]

\* Richards::calculate_diagnostics
calculate_diagnostics ==
  /\ PermAlive
  /\ LET derive == update_flux_ = "vis"
     IN  /\ darcy_flux' = IF derive THEN DeriveFlux(pres, temp, numerical_rel_perm)
                                    ELSE darcy_flux
         /\ flux_out' = [kind |-> "calculate_diagnostics", derived |-> derive]
  /\ UNCHANGED << Krel_method_, clobber_surf_kr_, upwind_from_prev_flux_, upwinding_deriv_,
                  changed, dchanged, pres, temp, numerical_rel_perm,
                  dnumerical_rel_perm_dpressure, darcy_flux_direction, touched,
                  perm_out, dperm_out >>

\* upwinding_deriv_->Update(S) on the derivative of the coefficient
UpwindDerivative(p, dir) == [f \in DOMAIN dir |-> IF dir[f] >= 0 THEN 3 + p ELSE 5 + p]

\* Richards::UpdatePermeabilityDerivativeData_: when the derivative changed,
\* the work field is zeroed and upwinding_deriv_ is dereferenced
UpdatePermeabilityDerivativeData_ ==
  /\ PermAlive
  /\ dchanged' = FALSE
  /\ IF ~dchanged
       THEN /\ dperm_out' = [kind |-> "ran", ret |-> FALSE]
            /\ UNCHANGED dnumerical_rel_perm_dpressure
     ELSE IF upwinding_deriv_ = "null"
       THEN /\ \E outcome \in NullDereferenceOutcomes :
                 dperm_out' = [kind |-> outcome, ret |-> TRUE]
            /\ dnumerical_rel_perm_dpressure' = [f \in OwnedFaces |-> 0]
     ELSE /\ dperm_out' = [kind |-> "ran", ret |-> TRUE]
          /\ dnumerical_rel_perm_dpressure' = UpwindDerivative(pres, darcy_flux_direction)
  /\ UNCHANGED << Krel_method_, clobber_surf_kr_, upwind_from_prev_flux_, upwinding_deriv_,
                  changed, pres, temp, numerical_rel_perm, darcy_flux_direction,
                  darcy_flux, touched, perm_out, flux_out >>

\* ChangedSolution(): the primary variable has a new value; every evaluator
\* that depends on it is stale
SolutionChanged ==
  /\ PermAlive
  /\ pres' = 1 - pres
  /\ changed' = [relative_permeability |-> TRUE, mass_density_liquid |-> TRUE,
                 pressure |-> TRUE]
  /\ dchanged' = TRUE
  /\ touched' = TRUE
  /\ UNCHANGED << Krel_method_, clobber_surf_kr_, upwind_from_prev_flux_, upwinding_deriv_,
                  temp, numerical_rel_perm, dnumerical_rel_perm_dpressure,
                  darcy_flux_direction, darcy_flux, perm_out, dperm_out, flux_out >>

\* Richards::CalculateConsistentFaces as the evaluators see it: the iterate
\* is rewritten and ChangedSolution() called, then the mass density is asked
\* under name_
ConsistentFacesAsksDensity ==
  /\ PermAlive
  /\ pres' = 1 - pres
  /\ changed' = [relative_permeability |-> TRUE, mass_density_liquid |-> FALSE,
                 pressure |-> TRUE]
  /\ dchanged' = TRUE
  /\ touched' = TRUE
  /\ UNCHANGED << Krel_method_, clobber_surf_kr_, upwind_from_prev_flux_, upwinding_deriv_,
                  temp, numerical_rel_perm, dnumerical_rel_perm_dpressure,
                  darcy_flux_direction, darcy_flux, perm_out, dperm_out, flux_out >>

\* the energy kernel writes a new temperature; the mass density depends on it
TemperatureChanged ==
  /\ PermAlive
  /\ temp' = 1 - temp
  /\ changed' = [changed EXCEPT !.mass_density_liquid = TRUE]
  /\ touched' = TRUE
  /\ UNCHANGED << Krel_method_, clobber_surf_kr_, upwind_from_prev_flux_, upwinding_deriv_,
                  dchanged, pres, numerical_rel_perm, dnumerical_rel_perm_dpressure,
                  darcy_flux_direction, darcy_flux, perm_out, dperm_out, flux_out >>

\* the routine and the call sites that ask the same evaluators
PermNext ==
  \/ UpdatePermeabilityData_
  \/ commit_state
  \/ SolutionChanged
  \/ ConsistentFacesAsksDensity
  \/ TemperatureChanged

\* the two operations that may derive the flux
FluxNext ==
  \/ commit_state
  \/ calculate_diagnostics
  \/ SolutionChanged
  \/ TemperatureChanged

\* the derivative routine next to the routine that fills the flux direction
DerivNext ==
  \/ UpdatePermeabilityDerivativeData_
  \/ UpdatePermeabilityData_
  \/ SolutionChanged

(***************************************************************************)
(* TopCellsSurfaceEvaluator::Evaluate_: the value of each surface cell is  *)
(* written into the subsurface cell below it; the subsurface mesh has one  *)
(* cell per owned face, cell f lying inside face f.                        *)
(***************************************************************************)
SubsurfaceCells == OwnedFaces
SurfaceValues == { -2, 0, 5 }

\* result.Mesh()->face_get_cells(f, USED, &cells) on a face of the surface
FaceGetCells(f) == << UpCell(f) >>

VARIABLES
  negate_,
  surf_vector,   \* the dependency, on the cells of the surface mesh
  top_result,    \* the vector the caller hands to Evaluate_
  top_out        \* the last call of Evaluate_

topVars == << negate_, surf_vector, top_result, top_out >>

\* result.Scale(-1): every entry of the vector
Scale(a, vec) == [c \in DOMAIN vec |-> a * vec[c]]

\* the loop over the owned surface cells, then the scaling
RECURSIVE CopySurfaceCells(_, _, _)
CopySurfaceCells(res, surf, c) ==
  IF c = NumSurfaceCells THEN res
  ELSE CopySurfaceCells([res EXCEPT ![FaceGetCells(EntityGetParent(c))[1]] = surf[c]],
                        surf, c + 1)

TopCellsSurface(res, surf, negate) ==
  LET copied == CopySurfaceCells(res, surf, 0)
  IN  IF negate THEN Scale(-1, copied) ELSE copied

TopInit ==
  /\ negate_ \in BOOLEAN
  /\ surf_vector \in [SurfaceCells -> SurfaceValues]
  /\ top_result \in { [c \in SubsurfaceCells |-> v] : v \in { 0, 3 } }
  /\ top_out = [kind |-> "none"]

TopRest ==
  /\ TopInit
  /\ ~negate_
  /\ surf_vector = [c \in SurfaceCells |-> 0]
  /\ top_result = [c \in SubsurfaceCells |-> 0]

TopCellsSurface_Evaluate_ ==
  /\ top_result' = TopCellsSurface(top_result, surf_vector, negate_)
  /\ top_out' = [kind |-> "ran", before |-> top_result, surf |-> surf_vector,
                 again |-> top_out.kind = "ran" /\ top_out.surf = surf_vector]
  /\ UNCHANGED << negate_, surf_vector >>

\* the surface field takes new values
NewSurfaceData ==
  /\ surf_vector' \in [SurfaceCells -> SurfaceValues] \ { surf_vector }
  /\ UNCHANGED << negate_, top_result, top_out >>

TopNext ==
  \/ TopCellsSurface_Evaluate_
  \/ NewSurfaceData

(***************************************************************************)
(* Specifications: one per kernel operation group; the variables of the    *)
(* other groups rest at their initial values.                              *)
(***************************************************************************)
vars == << richVars, admVars, enVars, funVars, advVars, preVars, evVars, optVars, permVars,
          predVars, topVars >>

RichardsRest == RichardsInit /\ plist = CHOOSE pl \in Plists : TRUE

\* the kernel after SetupRichardsFlow_ has completed on a list without
\* coupling, with any of the recognised flux update modes
RichardsConfigured ==
  /\ pc = "ready"
  /\ update_flux_ \in UpdateFluxModes
  /\ plist = [via_flux |-> FALSE, via_head |-> FALSE, infiltrate |-> FALSE,
              tpfa_cells_only |-> FALSE, update_flux_mode |-> update_flux_]
  /\ coupled_to_surface_via_flux_ = FALSE
  /\ coupled_to_surface_via_head_ = FALSE
  /\ infiltrate_only_if_unfrozen_ = FALSE
  /\ layout = "face"
  /\ bc_pressure_ = EmptyMap
  /\ bc_flux_ = EmptyMap
  /\ bc_seepage_ = BCSeepageCompute({}, 0)
  /\ bc_markers_ = [f \in Faces |-> "NONE"]
  /\ bc_values_ = [f \in Faces |-> 0]
  /\ time = 0
  /\ sol = 0
  /\ ubc_in = NoInputs

AdmRest == AdmInit /\ verbosity = "low"

FunRest == FunInit /\ ~is_source_term_ /\ ~negres_adds

PreconRest ==
  /\ PreconInit
  /\ ~coupled_to_subsurface_via_temp_ /\ ~coupled_to_subsurface_via_flux_
  /\ ~assemble_preconditioner_ /\ ~source_depends_on_key

Init == RichardsInit /\ AdmRest /\ EnormInit /\ FunRest /\ AdvInit /\ PreconRest /\ EvRest /\ OptRest /\ PermRest /\ PredRest /\ TopRest

Next == RichardsNext /\ UNCHANGED << admVars, enVars, funVars, advVars, preVars, evVars, optVars, permVars,
                          predVars, topVars >>

Spec == Init /\ [][Next]_vars

InitAdmissible == RichardsRest /\ AdmInit /\ EnormInit /\ FunRest /\ AdvInit /\ PreconRest /\ EvRest /\ OptRest /\ PermRest /\ PredRest /\ TopRest

NextAdmissible == AdmNext /\ UNCHANGED << richVars, enVars, funVars, advVars, preVars, evVars, optVars, permVars,
                          predVars, topVars >>

SpecAdmissible == InitAdmissible /\ [][NextAdmissible]_vars

InitEnorm == RichardsRest /\ AdmRest /\ EnormInit /\ FunRest /\ AdvInit /\ PreconRest /\ EvRest /\ OptRest /\ PermRest /\ PredRest /\ TopRest

NextEnorm == EnormNext /\ UNCHANGED << richVars, admVars, funVars, advVars, preVars, evVars, optVars, permVars,
                          predVars, topVars >>

SpecEnorm == InitEnorm /\ [][NextEnorm]_vars

InitFun == RichardsRest /\ AdmRest /\ EnormInit /\ FunInit /\ AdvInit /\ PreconRest /\ EvRest /\ OptRest /\ PermRest /\ PredRest /\ TopRest

NextFun == FunNext /\ UNCHANGED << richVars, admVars, enVars, advVars, preVars, evVars, optVars, permVars,
                          predVars, topVars >>

SpecFun == InitFun /\ [][NextFun]_vars

InitAdvection == RichardsRest /\ AdmRest /\ EnormInit /\ FunRest /\ AdvInit /\ PreconRest /\ EvRest /\ OptRest /\ PermRest /\ PredRest /\ TopRest

NextAdvection == AdvNext /\ UNCHANGED << richVars, admVars, enVars, preVars, evVars, optVars, permVars,
                          predVars, topVars >>

SpecAdvection == InitAdvection /\ [][NextAdvection]_vars

InitPrecon ==
  RichardsRest /\ AdmRest /\ EnormInit /\ FunInit /\ ~negres_adds /\ AdvInit /\ PreconInit /\ EvRest /\ OptRest /\ PermRest /\ PredRest /\ TopRest

NextPrecon == PreconNext /\ UNCHANGED << richVars, admVars, enVars, advVars, evVars, optVars, permVars,
                          predVars, topVars >>

SpecPrecon == InitPrecon /\ [][NextPrecon]_vars

InitEvaluators ==
  RichardsRest /\ AdmRest /\ EnormInit /\ FunRest /\ AdvInit /\ PreconRest /\ EvInit /\ OptRest /\ PermRest /\ PredRest /\ TopRest

NextEvaluators ==
  EvNext /\ UNCHANGED << richVars, admVars, enVars, funVars, advVars, preVars, optVars,
                        permVars,
                          predVars, topVars >>

SpecEvaluators == InitEvaluators /\ [][NextEvaluators]_vars

InitOptions ==
  RichardsRest /\ AdmRest /\ EnormInit /\ FunRest /\ AdvInit /\ PreconRest /\ EvRest /\ OptInit /\ PermRest /\ PredRest /\ TopRest

NextOptions ==
  OptNext /\ UNCHANGED << richVars, admVars, enVars, funVars, advVars, preVars, evVars,
                         permVars,
                          predVars, topVars >>

SpecOptions == InitOptions /\ [][NextOptions]_vars

InitPermeability ==
  RichardsConfigured /\ AdmRest /\ EnormInit /\ FunRest /\ AdvInit /\ PreconRest /\ EvRest /\ OptRest
    /\ PermInit /\ PredRest /\ TopRest

NextPermeability ==
  PermNext /\ UNCHANGED << richVars, admVars, enVars, funVars, advVars, preVars, evVars,
                          optVars,
                          predVars, topVars >>

SpecPermeability == InitPermeability /\ [][NextPermeability]_vars

InitFlux ==
  RichardsConfigured /\ AdmRest /\ EnormInit /\ FunRest /\ AdvInit /\ PreconRest /\ EvRest /\ OptRest
    /\ PermInit /\ PredRest /\ TopRest

NextFlux ==
  FluxNext /\ UNCHANGED << richVars, admVars, enVars, funVars, advVars, preVars, evVars,
                          optVars,
                          predVars, topVars >>

SpecFlux == InitFlux /\ [][NextFlux]_vars

InitPermDerivative ==
  RichardsConfigured /\ AdmRest /\ EnormInit /\ FunRest /\ AdvInit /\ PreconRest /\ EvRest /\ OptRest
    /\ PermInit /\ PredRest /\ TopRest

NextPermDerivative ==
  DerivNext /\ UNCHANGED << richVars, admVars, enVars, funVars, advVars, preVars, evVars,
                          optVars,
                          predVars, topVars >>

SpecPermDerivative == InitPermDerivative /\ [][NextPermDerivative]_vars

InitPredictor ==
  RichardsConfigured /\ update_flux_ = "iteration" /\ AdmRest /\ EnormInit /\ FunRest
    /\ AdvInit /\ PreconRest /\ EvRest /\ OptRest /\ PermRest /\ PredInit /\ TopRest

NextPredictor ==
  PredNext /\ UNCHANGED << admVars, enVars, funVars, advVars, preVars, evVars, optVars,
                          permVars, topVars >>

SpecPredictor == InitPredictor /\ [][NextPredictor]_vars

InitTopCells ==
  RichardsRest /\ AdmRest /\ EnormInit /\ FunRest /\ AdvInit /\ PreconRest /\ EvRest
    /\ OptRest /\ PermRest /\ PredRest /\ TopInit

NextTopCells ==
  TopNext /\ UNCHANGED << richVars, admVars, enVars, funVars, advVars, preVars, evVars,
                         optVars, permVars, predVars >>

SpecTopCells == InitTopCells /\ [][NextTopCells]_vars

(***************************************************************************)
(* Properties of the boundary-condition composer.                          *)
(***************************************************************************)
ComposedOnce == ubc_in.kind = "read"
PairAt(f) == << bc_markers_[f], bc_values_[f] >>
IsCoupled(in, f) == f \in CoupledFaces /\ (in.src.via_head \/ in.src.via_flux)

\* the pair each source alone prescribes on a face it names
CoupledPairOf(in, f) ==
  IF in.src.via_flux
    THEN << "NEUMANN", CoupledFluxValue(in.kr, in.sol, f) >>
    ELSE << "DIRICHLET", SurfacePressureAt(in.sol, SurfaceCellOf(f)) >>
SeepagePairOf(in, f) ==
  SeepagePair(BoundaryValue(in.src.layout, in.sol, f), in.src.seepage[f])
FluxPairOf(in, f) ==
  << "NEUMANN", NeumannValue(in.src.flux[f], in.kr, in.sol, f, in.src.infiltrate) >>
PressurePairOf(in, f) == << "DIRICHLET", in.src.pressure[f] >>

HighestPrecedencePair(in, f) ==
  IF IsCoupled(in, f) THEN CoupledPairOf(in, f)
  ELSE IF f \in DOMAIN in.src.seepage THEN SeepagePairOf(in, f)
  ELSE IF f \in DOMAIN in.src.flux THEN FluxPairOf(in, f)
  ELSE PressurePairOf(in, f)

\* C1: after UpdateBoundaryConditions_, every face named by one or more
\* boundary sources carries the pair of the highest-precedence source naming
\* it (coupled > seepage > prescribed flux > prescribed pressure), so a
\* seepage face is never overwritten by a lower source or by the default.
C1_Precedence ==
  ComposedOnce =>
    \A f \in NamedFaces(ubc_in.src) : PairAt(f) = HighestPrecedencePair(ubc_in, f)

\* a one-cell face named by pressure, flux and seepage at once, not coupled
C1_Witness ==
  /\ ComposedOnce
  /\ \E f \in Faces :
       /\ FaceNumCells(f) = 1
       /\ f \in DOMAIN ubc_in.src.seepage
       /\ f \in DOMAIN ubc_in.src.flux
       /\ f \in DOMAIN ubc_in.src.pressure
       /\ ~IsCoupled(ubc_in, f)
       /\ PairAt(f) = SeepagePairOf(ubc_in, f)

\* C2: a seepage face with threshold p* that no coupled condition names gets
\* (Neumann, 0) when the boundary pressure is strictly below p*, and
\* (Dirichlet, p*) otherwise, equality included.
C2_SeepageRule ==
  ComposedOnce =>
    \A f \in DOMAIN ubc_in.src.seepage :
      ~IsCoupled(ubc_in, f) =>
        LET p == BoundaryValue(ubc_in.src.layout, ubc_in.sol, f)
            pstar == ubc_in.src.seepage[f]
        IN  /\ (p < pstar) => PairAt(f) = << "NEUMANN", 0 >>
            /\ (p >= pstar) => PairAt(f) = << "DIRICHLET", pstar >>

\* a seepage face whose boundary pressure equals the threshold exactly
C2_Witness ==
  /\ ComposedOnce
  /\ \E f \in DOMAIN ubc_in.src.seepage :
       /\ ~IsCoupled(ubc_in, f)
       /\ BoundaryValue(ubc_in.src.layout, ubc_in.sol, f) = ubc_in.src.seepage[f]
       /\ PairAt(f) = << "DIRICHLET", ubc_in.src.seepage[f] >>

Unnamed(in) == Faces \ NamedFaces(in.src)

\* C3 as stated: every used face (owned or ghost) without explicit condition
\* carries (Neumann, 0) if it has one adjacent cell and (none, 0) if it has two.
C3_DefaultOnAllUsedFaces ==
  ComposedOnce =>
    \A f \in Unnamed(ubc_in) :
      /\ FaceNumCells(f) = 1 => PairAt(f) = << "NEUMANN", 0 >>
      /\ FaceNumCells(f) = 2 => PairAt(f) = << "NONE", 0 >>

\* C3 amended: the default zero-flux condition is given to the owned one-cell
\* faces without explicit condition only; two-cell faces and ghost faces
\* without explicit condition carry (none, 0).
C3_DefaultOnOwnedFaces ==
  ComposedOnce =>
    \A f \in Unnamed(ubc_in) :
      /\ (f \in OwnedFaces /\ FaceNumCells(f) = 1) => PairAt(f) = << "NEUMANN", 0 >>
      /\ (f \in GhostFaces \/ FaceNumCells(f) = 2) => PairAt(f) = << "NONE", 0 >>

\* unnamed faces of each sort exist after a composition
C3_Witness ==
  /\ ComposedOnce
  /\ \E f \in Unnamed(ubc_in) \cap OwnedFaces :
       FaceNumCells(f) = 1 /\ PairAt(f) = << "NEUMANN", 0 >>
  /\ \E f \in Unnamed(ubc_in) \cap GhostFaces :
       FaceNumCells(f) = 1 /\ PairAt(f) = << "NONE", 0 >>
  /\ \E f \in Unnamed(ubc_in) : FaceNumCells(f) = 2

\* C4: whenever the boundary conditions are composed, each time-dependent
\* source feeding the composition (prescribed pressure, prescribed flux,
\* seepage threshold) holds its values for the new-state time of that call.
C4_SourcesAtNewTime ==
  ComposedOnce =>
    /\ ubc_in.src.pressure = BCPressureCompute(DOMAIN ubc_in.src.pressure, ubc_in.time)
    /\ ubc_in.src.flux = BCFluxCompute(DOMAIN ubc_in.src.flux, ubc_in.time)
    /\ ubc_in.src.seepage = BCSeepageCompute(DOMAIN ubc_in.src.seepage, ubc_in.time)

Composing == ModifyPredictorFluxBCs_ \/ CalculateConsistentFaces

\* C5: each call of UpdateBoundaryConditions_ leaves one marker per face that
\* depends only on what the call reads: a face named by no source ends as
\* (none, 0) or (Neumann, 0) whatever it carried before, and a call that reads
\* the same inputs as the call before it leaves both arrays as they were.
C5_Recomposed ==
  [][ Composing =>
        /\ \A f \in Faces \ NamedFaces(ubc_in'.src) :
             << bc_markers_'[f], bc_values_'[f] >> \in { << "NONE", 0 >>, << "NEUMANN", 0 >> }
        /\ \A f \in Faces : bc_markers_'[f] \in { "NONE", "DIRICHLET", "NEUMANN" }
        /\ ubc_in'.repeat => (bc_markers_' = bc_markers_ /\ bc_values_' = bc_values_)
    ]_vars

\* a call that repeats the inputs of the call before it, after some earlier
\* call had found a stale condition on a face no source named any more
C5_Witness ==
  /\ ComposedOnce
  /\ ubc_in.repeat
  /\ ubc_in.stale_seen
  /\ \E f \in Faces : bc_markers_[f] = "DIRICHLET"

\* C6: setup fails when both coupling flags are requested; after a successful
\* setup at most one flag is set, and no composition writes both a coupled
\* Dirichlet and a coupled Neumann condition.
C6_ExclusiveCoupling ==
  /\ (plist.via_flux /\ plist.via_head) => pc # "ready"
  /\ pc = "ready" => ~(coupled_to_surface_via_flux_ /\ coupled_to_surface_via_head_)
  /\ ComposedOnce => Cardinality(ubc_in.coupled_writes) <= 1

\* setup was run with both flags requested and a valid flux mode, and aborted
C6_Witness ==
  /\ pc = "aborted"
  /\ plist.via_flux /\ plist.via_head
  /\ coupled_to_surface_via_flux_ /\ coupled_to_surface_via_head_

(***************************************************************************)
(* Properties of Richards::IsAdmissible.                                   *)
(***************************************************************************)
Examined(u) ==
  { u.cell[p][i] : p \in Partitions, i \in LocalIds }
    \cup (IF HasFace(u) THEN { u.second[p][i] : p \in Partitions, i \in LocalIds } ELSE {})

Rejected == adm.kind = "ran" /\ \E p \in Partitions : ~adm.ret[p]

\* C7: IsAdmissible returns false exactly when some examined value of the
\* trial pressure, on any partition, lies below -1e9 or above 1e8; values
\* equal to a bound are admissible, and all partitions return the same
\* boolean.
C7_AdmissibleIffWithinBounds ==
  adm.kind = "ran" =>
    \A p \in Partitions :
      adm.ret[p] = ~(\E v \in Examined(up) : v < MinAdmissible \/ v > MaxAdmissible)

C7_Witness ==
  /\ adm.kind = "ran"
  /\ HasFace(up)
  /\ SetMin(Examined(up)) = MinAdmissible
  /\ SetMax(Examined(up)) = MaxAdmissible
  /\ \A p \in Partitions : adm.ret[p]

LocatedIn(comp, line) ==
  /\ \E p \in Partitions, i \in LocalIds : GID(p, i) = line.min.gid /\ comp[p][i] = line.min.value
  /\ \E p \in Partitions, i \in LocalIds : GID(p, i) = line.max.gid /\ comp[p][i] = line.max.value

\* C8: whenever IsAdmissible rejects a trial iterate it reports the extremal
\* values with their cell and face ids, and every reported id is that of an
\* entity holding the reported value.
C8_RejectionReportsLocatedExtrema ==
  Rejected =>
    /\ adm.report.kind = "extrema"
    /\ LocatedIn(up.cell, adm.report.cell)
    /\ HasFace(up) => "face" \in adm.report.comps /\ LocatedIn(up.second, adm.report.face)

(***************************************************************************)
(* Properties of EnergyBase::enorm.                                        *)
(***************************************************************************)
AllRatios(in) ==
  { CellRatio(in, p, c) : p \in Partitions, c \in LocalIds }
    \cup { FaceRatio(in, p, f) : p \in Partitions, f \in LocalIds }
    \cup { RatZero }

IsMaxOf(r, R) == r \in R /\ \A x \in R : ~RatGT(x, r)

\* C9: enorm returns, on every partition, the maximum over all partitions of
\* all cell ratios and all face ratios; it is never negative and does not
\* depend on whether the verbose block ran.
C9_EnormIsGlobalMax ==
  en_out.kind = "ran" =>
    \A p \in Partitions :
      /\ IsMaxOf(en_out.val[p], AllRatios(en_in))
      /\ en_out.val[p].n >= 0 /\ en_out.val[p].d > 0
      /\ en_out.val[p] = EnormValue([en_in EXCEPT !.verbose = ~en_in.verbose], p)

C9_Witness ==
  /\ en_out.kind = "ran"
  /\ en_in.verbose
  /\ \E p, q \in Partitions :
       /\ p # q
       /\ \E c \in LocalIds : CellRatio(en_in, p, c).n > 0
       /\ \E f \in LocalIds : FaceRatio(en_in, q, f).n > 0
       /\ \E c, f \in LocalIds : RatGT(FaceRatio(en_in, q, f), CellRatio(en_in, p, c))
  /\ \A p \in Partitions : en_out.val[p].n > 0

C11_SourceSubtracted ==
  fun_out.kind = "ran" =>
    \A c \in Cells :
      fun_out.stages.post_source[c] =
        IF fun_out.inputs.source
          THEN fun_out.stages.post_advection[c] - SourceAtCell(fun_out.inputs.u_new, c)
          ELSE fun_out.stages.post_advection[c]

C11_Witness ==
  /\ fun_out.kind = "ran"
  /\ fun_out.inputs.source
  /\ fun_out.fields_before.source # fun_out.inputs.u_new
  /\ \A c \in Cells : /\ SourceAtCell(fun_out.inputs.u_new, c) > 0
                      /\ fun_out.stages.post_source[c] < fun_out.stages.post_advection[c]

AccumulatedOverStateStep ==
  \A c \in Cells :
    (fun_out.stages.post_accumulation[c] - fun_out.stages.post_diffusion[c])
        * (fun_out.inputs.time - 0)
      = EnergyAtCell(fun_out.inputs.u_new, fun_out.inputs.time, c) - EnergyAtCell(0, 0, c)

\* C12 (as stated): AddAccumulation_ adds (e_new - e_old)/dt to every cell,
\* both energies up to date, dt the time difference of the two states, and
\* this dt equals the step t_new - t_old that fun was called with.
C12_AccumulationOverCallStep ==
  fun_out.kind = "ran" =>
    /\ AccumulatedOverStateStep
    /\ fun_out.inputs.time - 0 = fun_out.inputs.t_new - fun_out.inputs.t_old

\* C12 (amended): AddAccumulation_ adds (e_new - e_old)/dt to every cell,
\* both energies up to date, dt the time difference of the two states,
\* whatever t_new - t_old fun was called with.
C12_AccumulationOverStateStep ==
  fun_out.kind = "ran" => AccumulatedOverStateStep

C12_Witness ==
  /\ fun_out.kind = "ran"
  /\ fun_out.fields_before.energy # [u |-> fun_out.inputs.u_new, t |-> fun_out.inputs.time]
  /\ fun_out.inputs.time - 0 # fun_out.inputs.t_new - fun_out.inputs.t_old
  /\ \E c \in Cells : fun_out.stages.post_accumulation[c] # fun_out.stages.post_diffusion[c]

(***************************************************************************)
(* Properties of EnergyBase::AddAdvection_.                                *)
(***************************************************************************)
AdvectionChange(call, c) == call.g[c] - call.g_before[c]

\* C13: AddAdvection_ subtracts the advected field from every cell of g when
\* negate is true and adds it when negate is false; two calls with equal
\* inputs and opposite negate change g by opposite amounts.
C13_SignFollowsNegate ==
  /\ adv_out.kind = "ran" =>
       \A c \in Cells :
         AdvectionChange(adv_out, c) =
           IF adv_out.negate
             THEN 0 - AdvectionField(adv_out.inputs.u_new, adv_out.inputs.bc, c)
             ELSE AdvectionField(adv_out.inputs.u_new, adv_out.inputs.bc, c)
  /\ (adv_out.kind = "ran" /\ adv_prev.kind = "ran" /\ adv_out.inputs = adv_prev.inputs
        /\ adv_out.negate # adv_prev.negate) =>
       \A c \in Cells : AdvectionChange(adv_out, c) = 0 - AdvectionChange(adv_prev, c)

C13_Witness ==
  /\ adv_out.kind = "ran" /\ adv_prev.kind = "ran"
  /\ adv_out.inputs = adv_prev.inputs
  /\ ~adv_out.negate /\ adv_prev.negate
  /\ adv_prev.enthalpy_before # adv_prev.inputs.u_new
  /\ \A c \in Cells : AdvectionChange(adv_out, c) > 0 /\ AdvectionChange(adv_prev, c) < 0

(***************************************************************************)
(* Properties of EnergyBase::update_precon.                                *)
(***************************************************************************)
PreconRan == precon_out.kind = "ran"
AccumulationAdded(c) ==
  precon_out.stages.post_accumulation[c] - precon_out.stages.stiffness[c]

\* C14: the accumulation contribution to the diagonal of cell c is de_dT/h
\* when the kernel is not coupled to the subsurface; when it is coupled it is
\* de_dT/h where the surface pressure is at or above atmospheric pressure
\* and 0 where it is below.
C14_AccumulationDerivative ==
  PreconRan =>
    \A c \in Cells :
      IF precon_out.coupled
           /\ PreconSurfacePressure(precon_out.u_new, c) < AtmosphericPressure
        THEN AccumulationAdded(c) = 0
        ELSE AccumulationAdded(c) * precon_out.h = DeDT(precon_out.u_new, c)

C14_Witness ==
  /\ PreconRan
  /\ precon_out.coupled
  /\ precon_out.dfields_before.de_dT # precon_out.u_new
  /\ \E c \in Cells : /\ PreconSurfacePressure(precon_out.u_new, c) = AtmosphericPressure
                      /\ AccumulationAdded(c) > 0
  /\ \E c \in Cells : /\ PreconSurfacePressure(precon_out.u_new, c) > AtmosphericPressure
                      /\ AccumulationAdded(c) > 0

StepsOf(call) == { call.steps[i] : i \in 1 .. Len(call.steps) }

\* C15: with cross-domain coupling update_precon performs global assembly
\* and the Schur-complement reduction; without coupling it does both only
\* if assembly is configured, and otherwise only the local update.
C15_AssemblyAndSchur ==
  PreconRan =>
    /\ precon_out.coupled =>
         {"AssembleGlobalMatrices", "ComputeSchurComplement"} \subseteq StepsOf(precon_out)
    /\ (~precon_out.coupled /\ precon_out.assemble) =>
         {"AssembleGlobalMatrices", "ComputeSchurComplement"} \subseteq StepsOf(precon_out)
    /\ (~precon_out.coupled /\ ~precon_out.assemble) => StepsOf(precon_out) = {}

\* C20: AddSourcesToPrecon_ subtracts d(source)/dT from the diagonal of every
\* cell when a source term is configured and the source evaluator depends on
\* the primary unknown, and leaves the diagonal unchanged otherwise.
C20_SourceDerivative ==
  PreconRan =>
    \A c \in Cells :
      precon_out.stages.post_source[c] =
        IF precon_out.source /\ precon_out.depends
          THEN precon_out.stages.post_accumulation[c] - DSourceDT(precon_out.u_new, c)
          ELSE precon_out.stages.post_accumulation[c]

C20_Witness ==
  /\ PreconRan
  /\ precon_out.source /\ precon_out.depends
  /\ precon_out.dfields_before.dsource_dT # precon_out.u_new
  /\ \A c \in Cells : /\ DSourceDT(precon_out.u_new, c) > 0
                      /\ precon_out.stages.post_source[c] < precon_out.stages.post_accumulation[c]
                      /\ Acc_cells[c] = precon_out.stages.post_source[c]

(***************************************************************************)
(* Evaluator partial derivatives                                           *)
(***************************************************************************)
\* C16: a partial-derivative routine of RichardsWaterContent,
\* AdvectedEnergySourceEvaluator or EOSEvaluator that is asked for a key
\* outside its declared dependencies never returns: whenever a call has
\* returned, its key was a declared dependency.
C16_UndeclaredKeyFailsFast ==
  deriv_out.kind = "returned" => deriv_out.wrt_key \in deriv_out.dependencies

(***************************************************************************)
(* Enumerated options                                                      *)
(***************************************************************************)
\* the words of key appear, in order and adjacent, in message
NamesKey(message, key) ==
  \E i \in 1 .. (Len(message) - Len(key) + 1) :
     SubSeq(message, i, i + Len(key) - 1) = key

\* C17: an unrecognised value of "update flux mode", "relative permeability
\* method", "Krel function name" or "EOS basis" is fatal: the setup or
\* construction that read it does not complete, the option keeps no value
\* (no default is substituted), and the error names the option's key.
C17_UnknownOptionIsFatalAndNamed ==
  /\ (setup_out # NotRun /\ opt_plist.update_flux_mode = UnknownValue)
       => /\ setup_out.pc \in { "threw", "aborted" }
          /\ setup_out.update_flux_ = "unset"
          /\ NamesKey(setup_out.message, UpdateFluxModeKey)
  /\ (setup_out # NotRun /\ opt_plist.update_flux_mode # UnknownValue
        /\ ~(opt_plist.via_flux /\ opt_plist.via_head)
        /\ opt_plist.method_name = UnknownValue)
       => /\ setup_out.pc \in { "threw", "aborted" }
          /\ setup_out.Krel_method_ = "unset"
          /\ NamesKey(setup_out.message, KrelMethodKey)
  /\ (wrm_out # NotRun /\ opt_plist.fname = UnknownValue)
       => /\ wrm_out.pc \in { "threw", "aborted" }
          /\ wrm_out.function_ = "unset"
          /\ NamesKey(wrm_out.message, KrelFunctionKey)
  /\ (eos_out # NotRun /\ opt_plist.mode = UnknownValue)
       => /\ eos_out.pc \in { "threw", "aborted" }
          /\ eos_out.mode_ = "unset"
          /\ NamesKey(eos_out.message, EOSBasisKey)

(***************************************************************************)
(* Prescribed-flux faces                                                   *)
(***************************************************************************)
\* the prescribed-flux faces of a composition that no seepage or coupled
\* condition names
PlainFluxFaces(in) ==
  { f \in DOMAIN in.src.flux : f \notin DOMAIN in.src.seepage /\ ~IsCoupled(in, f) }

Gated(in, f) == in.src.infiltrate /\ TemperatureAt(in.sol, f) <= FreezingPoint

\* C18: after UpdateBoundaryConditions_(kr), a prescribed-flux face that no
\* seepage or coupled condition overrides carries marker Neumann; its value
\* is 0 when freezing-gating is on and the face temperature is not above
\* 273.15, otherwise the prescribed flux, divided by the upwinded relative
\* permeability of the face exactly when kr is false and that coefficient is
\* strictly positive, and left undivided for a zero or negative coefficient.
C18_PrescribedFluxRule ==
  ComposedOnce =>
    \A f \in PlainFluxFaces(ubc_in) :
      LET flux == ubc_in.src.flux[f]
          relperm == RelPermAt(ubc_in.sol, f)
      IN  /\ bc_markers_[f] = "NEUMANN"
          /\ Gated(ubc_in, f) => bc_values_[f] = 0
          /\ (~Gated(ubc_in, f) /\ ~ubc_in.kr /\ relperm > 0)
               => bc_values_[f] = flux \div relperm
          /\ (~Gated(ubc_in, f) /\ (ubc_in.kr \/ relperm <= 0))
               => bc_values_[f] = flux

\* one composition with kr false in which one ungated flux face has a
\* negative coefficient and keeps the prescribed flux, another has a positive
\* coefficient and carries the quotient, and a gated one carries 0
C18_Witness ==
  /\ ComposedOnce
  /\ ~ubc_in.kr
  /\ \E f \in PlainFluxFaces(ubc_in) :
       /\ ~Gated(ubc_in, f) /\ RelPermAt(ubc_in.sol, f) < 0
       /\ bc_values_[f] = ubc_in.src.flux[f] /\ bc_values_[f] # 0
  /\ \E f \in PlainFluxFaces(ubc_in) :
       /\ ~Gated(ubc_in, f) /\ RelPermAt(ubc_in.sol, f) > 0
       /\ bc_values_[f] = ubc_in.src.flux[f] \div RelPermAt(ubc_in.sol, f)
       /\ bc_values_[f] # ubc_in.src.flux[f]
  /\ \E f \in PlainFluxFaces(ubc_in) :
       Gated(ubc_in, f) /\ ubc_in.src.flux[f] # 0 /\ bc_values_[f] = 0

(***************************************************************************)
(* Upwinded relative permeability                                          *)
(***************************************************************************)
PermRan == perm_out.kind = "ran"

\* C19: UpdatePermeabilityData_ returns true, and runs the upwinding,
\* exactly when the relative-permeability evaluator reports a change or, for
\* the total-flux method, the pressure or the mass density reports one; a
\* call that follows another with no change of any input in between returns
\* false, updates neither the flux direction nor the upwinded coefficient,
\* and leaves numerical_rel_perm and darcy_flux_direction as they were.
C19_NoRedundantUpwinding ==
  PermRan =>
    /\ perm_out.ret =
         (\/ perm_out.reported.relative_permeability
          \/ /\ Krel_method_ = "UPWIND_METHOD_TOTAL_FLUX"
             /\ (perm_out.reported.pressure \/ perm_out.reported.mass_density_liquid))
    /\ perm_out.upwinded = perm_out.ret
    /\ (~perm_out.first /\ ~perm_out.touched_before) =>
         /\ ~perm_out.ret
         /\ ~perm_out.update_dir
         /\ ~perm_out.upwinded
         /\ numerical_rel_perm = perm_out.uw_before
         /\ darcy_flux_direction = perm_out.dir_before

\* with the total-flux method, an idle second call: the call before it
\* returned true and filled both work fields, no input changed since, and
\* this call returned false and left both fields as they were
C19_Witness ==
  /\ PermRan
  /\ Krel_method_ = "UPWIND_METHOD_TOTAL_FLUX"
  /\ ~perm_out.first /\ ~perm_out.touched_before
  /\ perm_out.prev_ret
  /\ ~perm_out.ret
  /\ numerical_rel_perm = perm_out.uw_before
  /\ numerical_rel_perm # [f \in OwnedFaces |-> 1]
  /\ darcy_flux_direction # [f \in OwnedFaces |-> 0]

(***************************************************************************)
(* Order of the steps of update_precon                                     *)
(***************************************************************************)
\* position of step in the sequence order, 0 when it is absent
PositionOf(step, order) ==
  IF \E i \in DOMAIN order : order[i] = step
    THEN CHOOSE i \in DOMAIN order : order[i] = step
    ELSE 0

AssemblySteps == { "AssembleGlobalMatrices", "ComputeSchurComplement", "UpdatePreconditioner" }

FunRan == fun_out.kind = "ran"

\* C22: every call of fun recomputes the boundary conditions at t_new before
\* any term, zeroes the residual, writes the diffusion term first, and then
\* adds accumulation, advection and source on top in that order: each stage
\* is the stage before it plus its own term, and the residual returned is
\* the last stage, so that no step overwrites an earlier contribution.
C22_TermsInOrder ==
  FunRan =>
    LET in == fun_out.inputs
        st == fun_out.stages
        bc == EnergyUpdateBoundaryConditions_(in.t_new)
        zero == [c \in Cells |-> 0]
    IN  /\ fun_out.bc = bc
        /\ st.post_diffusion = [c \in Cells |-> NegativeResidual(in.u_new, bc, c)]
        /\ st.post_accumulation =
             [c \in Cells |-> st.post_diffusion[c]
                + (EnergyAtCell(in.u_new, in.time, c) - EnergyAtCell(0, 0, c)) \div in.time]
        /\ st.post_advection =
             [c \in Cells |-> st.post_accumulation[c] - AdvectionField(in.u_new, bc, c)]
        /\ st.post_source =
             [c \in Cells |-> st.post_advection[c]
                - (IF in.source THEN SourceAtCell(in.u_new, c) ELSE 0)]
        /\ fun_out.g = st.post_source

\* a call on a residual vector that was not zero, with a source configured
\* and an operator that replaces the content of the vector it is given:
\* all four terms are present in the result
C22_Witness ==
  /\ FunRan
  /\ ~negres_adds
  /\ fun_out.inputs.source
  /\ \E c \in Cells : fun_out.g_before[c] # 0
  /\ \A c \in Cells :
       /\ fun_out.stages.post_diffusion[c] # 0
       /\ fun_out.stages.post_accumulation[c] # fun_out.stages.post_diffusion[c]
       /\ fun_out.stages.post_advection[c] # fun_out.stages.post_accumulation[c]
       /\ fun_out.g[c] # fun_out.stages.post_advection[c]

(***************************************************************************)
(* The Darcy flux and the flux update mode                                 *)
(***************************************************************************)
\* C23: darcy_flux is rewritten only as the update-flux mode allows:
\* commit_state derives it exactly when the mode is "timestep", or the mode
\* is "iteration" and the permeability data, the pressure or the mass
\* density changed; calculate_diagnostics derives it exactly when the mode
\* is "vis"; an operation that does not derive it leaves it as it was, and
\* with mode "never" neither operation modifies it.
C23_FluxWrittenAsModeAllows ==
  [][ /\ commit_state =>
           LET allowed ==
                 \/ update_flux_ = "timestep"
                 \/ /\ update_flux_ = "iteration"
                    /\ (perm_out'.ret \/ changed.pressure \/ changed.mass_density_liquid)
           IN  /\ flux_out'.derived = allowed
               /\ allowed => darcy_flux' = DeriveFlux(pres, temp, numerical_rel_perm')
               /\ ~allowed => darcy_flux' = darcy_flux
      /\ calculate_diagnostics =>
           LET allowed == update_flux_ = "vis"
           IN  /\ flux_out'.derived = allowed
               /\ allowed => darcy_flux' = DeriveFlux(pres, temp, numerical_rel_perm)
               /\ ~allowed => darcy_flux' = darcy_flux
      /\ update_flux_ = "never" => darcy_flux' = darcy_flux
    ]_vars

\* mode "iteration": a commit_state after a change has derived a flux that
\* differs from the initial one
C23_Witness ==
  /\ update_flux_ = "iteration"
  /\ flux_out = [kind |-> "commit_state", derived |-> TRUE]
  /\ darcy_flux # [f \in OwnedFaces |-> 0]
  /\ darcy_flux = DeriveFlux(pres, temp, numerical_rel_perm)

(***************************************************************************)
(* The flux direction under total-flux upwinding                           *)
(***************************************************************************)
CurrentFluxDirection ==
  [f \in OwnedFaces |-> UpdateFlux(pres, MassDensity(pres, temp), f)]

\* C27: with total-flux upwinding, after any sequence of commit_state,
\* CalculateConsistentFaces and UpdatePermeabilityData_ calls, which all ask
\* the pressure and the mass density under the same requester name, whenever
\* UpdatePermeabilityData_ runs the upwinding, darcy_flux_direction has been
\* computed from the current pressure and the current mass density.
C27_DirectionCurrentWhenUpwinding ==
  [][ ( /\ UpdatePermeabilityData_ \/ commit_state
        /\ Krel_method_ = "UPWIND_METHOD_TOTAL_FLUX"
        /\ perm_out'.upwinded )
      => darcy_flux_direction' = CurrentFluxDirection
    ]_vars

\* an upwinding that found the mass density already asked by
\* CalculateConsistentFaces, and the pressure changed: the direction it left
\* is the current one
C27_Witness ==
  /\ PermRan
  /\ Krel_method_ = "UPWIND_METHOD_TOTAL_FLUX"
  /\ perm_out.upwinded
  /\ ~perm_out.first
  /\ perm_out.reported.pressure
  /\ ~perm_out.reported.mass_density_liquid
  /\ ~touched
  /\ darcy_flux_direction = CurrentFluxDirection
  /\ darcy_flux_direction # [f \in OwnedFaces |-> 0]


(***************************************************************************)
(* The derivative upwinding strategy                                       *)
(***************************************************************************)
\* C28: for every relative-permeability method accepted by setup, whenever
\* UpdatePermeabilityDerivativeData_ decides to upwind the derivative, the
\* derivative upwinding strategy it invokes has been created by setup.
C28_DerivativeStrategyCreated ==
  (dperm_out.kind # "none" /\ dperm_out.ret) => upwinding_deriv_ # "null"


(***************************************************************************)
(* The flux update mode under head coupling                                *)
(***************************************************************************)
\* C24: when the kernel is coupled to the surface via head, the flux update
\* mode after setup is "iteration", whatever valid mode the parameter list
\* asked for.
C24_HeadCouplingForcesIteration ==
  ( /\ setup_out.pc = "ready"
    /\ opt_plist.via_head
    /\ Get(opt_plist.update_flux_mode, "iteration") \in UpdateFluxModes )
  => setup_out.update_flux_ = "iteration"

\* setup has completed on a list that couples via head and asks for "never"
C24_Witness ==
  /\ setup_out.pc = "ready"
  /\ opt_plist.via_head
  /\ opt_plist.update_flux_mode = "never"
  /\ setup_out.update_flux_ = "iteration"


(***************************************************************************)
(* Richards::ModifyPredictor                                               *)
(***************************************************************************)
\* C25: ModifyPredictor returns true iff at least one modification ran;
\* with all predictor options disabled it returns false and leaves the
\* iterate and the boundary arrays unchanged; the flux-BC modification runs
\* iff "modify predictor for flux BCs" is set, or "modify predictor for
\* initial flux BCs" is set and the cycle is 0, and it runs before the
\* consistent-faces modification; "modify predictor via water content"
\* aborts instead of returning.
C25_ModifyPredictor ==
  [][ ModifyPredictor =>
        LET out == pred_out'
            ran(step) == \E i \in DOMAIN out.ran : out.ran[i] = step
        IN  /\ out.kind = "returned" => (out.changed = (out.ran # << >>))
            /\ ( /\ ~modify_predictor_bc_flux_
                 /\ ~modify_predictor_first_bc_flux_
                 /\ ~modify_predictor_wc_
                 /\ ~modify_predictor_with_consistent_faces_ )
               => /\ out.kind = "returned" /\ ~out.changed
                  /\ sol' = sol
                  /\ bc_markers_' = bc_markers_
                  /\ bc_values_' = bc_values_
            /\ ran("ModifyPredictorFluxBCs_") =
                 ( \/ modify_predictor_bc_flux_
                   \/ (modify_predictor_first_bc_flux_ /\ cycle = 0) )
            /\ ( ran("ModifyPredictorFluxBCs_") /\ ran("ModifyPredictorConsistentFaces_") )
               => PositionOf("ModifyPredictorFluxBCs_", out.ran)
                    < PositionOf("ModifyPredictorConsistentFaces_", out.ran)
            /\ modify_predictor_wc_ => (out.kind = "aborted" /\ pc' = "aborted")
            /\ out.kind = "aborted" => modify_predictor_wc_
    ]_vars

\* at cycle 0, with only the initial flux-BC option and consistent faces
\* set, the call has run both modifications in that order, returned true
\* and written the boundary arrays
C25_Witness ==
  /\ pred_out.kind = "returned"
  /\ pred_out.changed
  /\ pred_out.ran = << "ModifyPredictorFluxBCs_", "ModifyPredictorConsistentFaces_" >>
  /\ cycle = 0
  /\ ~modify_predictor_bc_flux_
  /\ modify_predictor_first_bc_flux_
  /\ bc_markers_ # [f \in Faces |-> "NONE"]


(***************************************************************************)
(* AdvectedEnergySourceEvaluator::EvaluateField_                           *)
(***************************************************************************)
\* C26: the evaluator upwinds the advected energy: in a cell with positive
\* mass source the result is cell_volume * mass_source * external density *
\* external enthalpy, otherwise cell_volume * mass_source * internal density
\* * internal enthalpy; cell_volume * conducted source is added iff
\* conduction is included; and every field the evaluation reads is a
\* declared dependency of the evaluator.
C26_UpwindedAdvectedEnergy ==
  deriv_out.kind = "evaluated" =>
    LET s == deriv_out.state
        cv(c) == FieldData("cell_volume", s, c)
        ms(c) == FieldData("mass_source", s, c)
        advected(c) ==
          IF ms(c) > 0
            THEN cv(c) * ms(c) * FieldData("source_molar_density", s, c)
                   * FieldData("mass_source_enthalpy", s, c)
            ELSE cv(c) * ms(c) * FieldData("molar_density_liquid", s, c)
                   * FieldData("enthalpy", s, c)
        conducted(c) ==
          IF include_conduction_ THEN cv(c) * FieldData("conducted_energy_source", s, c)
                                 ELSE 0
    IN  /\ \A c \in Cells : deriv_out.result[c] = advected(c) + conducted(c)
        /\ deriv_out.reads \subseteq deriv_out.dependencies


(***************************************************************************)
(* IsAdmissible and the layouts of the primary variable                    *)
(***************************************************************************)
AllDofs(u) ==
  { u.cell[p][i] : p \in Partitions, i \in LocalIds }
    \cup { u.second[p][i] : p \in Partitions, i \in LocalIds }

\* C29: IsAdmissible examines every degree of freedom of the trial iterate
\* for both layouts that setup can create, cell + face and cell +
\* boundary_face: an out-of-bounds value in any component of the primary
\* unknown makes it return false.
C29_EveryDofExamined ==
  ( /\ adm.kind = "ran"
    /\ up.comps \in TrialLayouts
    /\ \E v \in AllDofs(up) : v < MinAdmissible \/ v > MaxAdmissible )
  => \A p \in Partitions : ~adm.ret[p]


(***************************************************************************)
(* TopCellsSurfaceEvaluator::Evaluate_                                     *)
(***************************************************************************)
CellsBelowSurface == { FaceGetCells(EntityGetParent(c))[1] : c \in SurfaceCells }

\* C30: Evaluate_ is idempotent: evaluating twice with the same surface
\* vector yields the same result vector, with and without "negate"; each
\* cell directly below a surface cell holds the surface value (negated when
\* "negate" is set), and cells that are not below a surface cell keep the
\* value they had before the evaluation.
C30_TopCellsIdempotent ==
  top_out.kind = "ran" =>
    /\ top_out.again => top_result = top_out.before
    /\ \A c \in SurfaceCells :
         top_result[FaceGetCells(EntityGetParent(c))[1]] =
           (IF negate_ THEN -top_out.surf[c] ELSE top_out.surf[c])
    /\ \A c \in SubsurfaceCells \ CellsBelowSurface : top_result[c] = top_out.before[c]

=============================================================================
